---- MODULE Spec2Model ----
(***************************************************************************)
(* Model of the metrics normalization and field-mapping engine of the      *)
(* Google Ads connector (src/src/normalization/metrics.ts and              *)
(* src/src/normalization/field-mapper.ts).                                 *)
(*                                                                         *)
(* A JavaScript number is modelled as an exact rational n/d in lowest      *)
(* terms, or one of the three non-finite values +Infinity, -Infinity and   *)
(* NaN.  The two zeros +0 and -0 are one value, as they are for === .      *)
(* A JavaScript string is modelled as a sequence of one-character strings, *)
(* so that parseInt and parseFloat are computed character by character.    *)
(***************************************************************************)
EXTENDS Integers, Sequences, FiniteSets, TLC

(***************************************************************************)
(* Numbers                                                                 *)
(***************************************************************************)
RECURSIVE Gcd(_, _)
Gcd(a, b) == IF b = 0 THEN a ELSE Gcd(b, a % b)

Abs(x) == IF x < 0 THEN -x ELSE x

Sign(x) == IF x < 0 THEN -1 ELSE IF x > 0 THEN 1 ELSE 0

\* The finite number n/d (d # 0), in lowest terms with a positive denominator.
Fin(n, d) ==
    LET g == Gcd(Abs(n), Abs(d))
        s == IF d < 0 THEN -1 ELSE 1
    IN [k |-> "fin", n |-> (s * n) \div g, d |-> (s * d) \div g]

Int2Num(i) == [k |-> "fin", n |-> i, d |-> 1]

Zero == Int2Num(0)

PosInf == [k |-> "inf", n |-> 1, d |-> 1]

NegInf == [k |-> "inf", n |-> -1, d |-> 1]

NaN == [k |-> "nan", n |-> 0, d |-> 1]

Inf(s) == IF s < 0 THEN NegInf ELSE PosInf

IsFinite(x) == x.k = "fin"

\* isNaN(x) of JavaScript, for a value that is a number.
isNaN(x) == x.k = "nan"

\* a * b of JavaScript.  Finite operands are reduced crosswise before they
\* are multiplied, which keeps the intermediate integers small.
NumMul(a, b) ==
    IF a.k = "nan" \/ b.k = "nan" THEN NaN
    ELSE IF a.k = "inf" \/ b.k = "inf"
         THEN IF a.n = 0 \/ b.n = 0 THEN NaN ELSE Inf(Sign(a.n) * Sign(b.n))
         ELSE IF a.n = 0 \/ b.n = 0 THEN Zero
              ELSE LET g1 == Gcd(Abs(a.n), b.d)
                       g2 == Gcd(Abs(b.n), a.d)
                   IN Fin((a.n \div g1) * (b.n \div g2),
                          (a.d \div g2) * (b.d \div g1))

\* a / b of JavaScript.
NumDiv(a, b) ==
    IF a.k = "nan" \/ b.k = "nan" THEN NaN
    ELSE IF a.k = "inf"
         THEN IF b.k = "inf" THEN NaN
              ELSE Inf(a.n * (IF b.n < 0 THEN -1 ELSE 1))
         ELSE IF b.k = "inf" THEN Zero
              ELSE IF b.n = 0
                   THEN IF a.n = 0 THEN NaN ELSE Inf(Sign(a.n))
                   ELSE NumMul(a, Fin(b.d, b.n))

\* Mutant of MathRound: a tie goes away from zero.
MathRound_HalfAwayFromZero(x) ==
    IF x.k # "fin" THEN x
    ELSE Int2Num(Sign(x.n) * ((2 * Abs(x.n) + x.d) \div (2 * x.d)))

\* Math.round(x): the integer nearest to x, a tie going to the larger one
\* (floor(x + 1/2)); NaN and the infinities are returned as they are.
MathRound(x) ==
    IF x.k # "fin" THEN x
    ELSE Int2Num((2 * x.n + x.d) \div (2 * x.d))

RECURSIVE Pow10(_)
Pow10(e) == IF e = 0 THEN 1 ELSE 10 * Pow10(e - 1)

\* Math.pow(10, decimals) for an integer number of decimals.
MathPow10(decimals) ==
    IF decimals >= 0 THEN Int2Num(Pow10(decimals)) ELSE Fin(1, Pow10(-decimals))

(***************************************************************************)
(* Strings and the two parsers of JavaScript                               *)
(***************************************************************************)
Digits == {"0", "1", "2", "3", "4", "5", "6", "7", "8", "9"}

DigitVal(c) ==
    CASE c = "0" -> 0 [] c = "1" -> 1 [] c = "2" -> 2 [] c = "3" -> 3
      [] c = "4" -> 4 [] c = "5" -> 5 [] c = "6" -> 6 [] c = "7" -> 7
      [] c = "8" -> 8 [] c = "9" -> 9

WhiteSpace == {" "}

Drop(s, k) == SubSeq(s, k + 1, Len(s))

StartsWith(s, p) == Len(s) >= Len(p) /\ SubSeq(s, 1, Len(p)) = p

RECURSIVE SkipWhiteSpace(_)
SkipWhiteSpace(s) ==
    IF Len(s) > 0 /\ Head(s) \in WhiteSpace THEN SkipWhiteSpace(Tail(s)) ELSE s

\* Length of the longest prefix of s made of decimal digits.
RECURSIVE DigitPrefixLen(_)
DigitPrefixLen(s) ==
    IF Len(s) > 0 /\ Head(s) \in Digits THEN 1 + DigitPrefixLen(Tail(s)) ELSE 0

\* The integer a sequence of decimal digits denotes.
RECURSIVE DigitsValue(_)
DigitsValue(s) ==
    IF Len(s) = 0 THEN 0
    ELSE 10 * DigitsValue(SubSeq(s, 1, Len(s) - 1)) + DigitVal(s[Len(s)])

HasSign(s) == Len(s) > 0 /\ Head(s) \in {"+", "-"}

SignOf(s) == IF Len(s) > 0 /\ Head(s) = "-" THEN -1 ELSE 1

\* parseInt(str, 10): leading white space is skipped, then an optional sign,
\* then the longest run of decimal digits; whatever follows is ignored, and
\* NaN is returned when there is no digit.
parseInt(str) ==
    LET s == SkipWhiteSpace(str)
        r == IF HasSign(s) THEN Tail(s) ELSE s
        len == DigitPrefixLen(r)
    IN IF len = 0 THEN NaN
       ELSE Int2Num(SignOf(s) * DigitsValue(SubSeq(r, 1, len)))

InfinityLiteral == <<"I", "n", "f", "i", "n", "i", "t", "y">>

\* The steps of parseFloat(str), StringToNumber applied to the longest prefix
\* that is a decimal literal.  The exponent part: e or E, an optional sign
\* and digits; it counts only when there is a digit.
ExponentDigits(sign, ds) ==
    sign * DigitsValue(SubSeq(ds, 1, DigitPrefixLen(ds)))

ExponentPart(rest) ==
    IF Len(rest) > 0 /\ Head(rest) \in {"e", "E"}
    THEN ExponentDigits(SignOf(Tail(rest)),
                        IF HasSign(Tail(rest)) THEN Tail(Tail(rest))
                        ELSE Tail(rest))
    ELSE 0

HasDot(afterInt) == Len(afterInt) > 0 /\ Head(afterInt) = "."

FractionLen(afterInt) ==
    IF HasDot(afterInt) THEN DigitPrefixLen(Tail(afterInt)) ELSE 0

\* r holds i integer digits, then (hasDot) a point and f fraction digits.
\* Without a digit on either side of the point there is no number.
DecimalLiteral(sign, r, i, hasDot, f) ==
    IF i = 0 /\ f = 0 THEN NaN
    ELSE NumMul(Fin(sign * (DigitsValue(SubSeq(r, 1, i)) * Pow10(f)
                            + DigitsValue(SubSeq(r, i + 2, i + 1 + f))),
                    Pow10(f)),
                MathPow10(ExponentPart(Drop(r, IF hasDot THEN i + 1 + f
                                               ELSE i))))

UnsignedLiteral(sign, r, i) ==
    IF StartsWith(r, InfinityLiteral) THEN Inf(sign)
    ELSE DecimalLiteral(sign, r, i, HasDot(Drop(r, i)), FractionLen(Drop(r, i)))

SignedLiteral(s) ==
    UnsignedLiteral(SignOf(s), IF HasSign(s) THEN Tail(s) ELSE s,
                    DigitPrefixLen(IF HasSign(s) THEN Tail(s) ELSE s))

\* parseFloat(str): leading white space is skipped, then the longest prefix
\* that is a decimal literal is converted: an optional sign, then Infinity or
\* digits with an optional fraction and an optional exponent.  Whatever
\* follows is ignored, and NaN is returned when there is no such prefix.
parseFloat(str) == SignedLiteral(SkipWhiteSpace(str))

(***************************************************************************)
(* Values of a raw field: number | string | undefined | null               *)
(***************************************************************************)
Undefined == [t |-> "undefined", num |-> Zero, str |-> <<>>]

Null == [t |-> "null", num |-> Zero, str |-> <<>>]

Number(x) == [t |-> "number", num |-> x, str |-> <<>>]

String(s) == [t |-> "string", num |-> Zero, str |-> s]

\* obj.field of JavaScript: undefined when the object has no such property.
Get(obj, field) == IF field \in DOMAIN obj THEN obj[field] ELSE Undefined

(***************************************************************************)
(* metrics.ts                                                              *)
(***************************************************************************)
MICROS_PER_UNIT == 1000000

\* Mutant of microsToDecimal: the isNaN test is left out.
microsToDecimal_NoNaNGuard(micros) ==
    IF micros.t = "undefined" \/ micros.t = "null" THEN Zero
    ELSE NumDiv(IF micros.t = "string" THEN parseInt(micros.str)
                ELSE micros.num,
                Int2Num(MICROS_PER_UNIT))

microsToDecimal(micros) ==
    IF micros.t = "undefined" \/ micros.t = "null" THEN Zero
    ELSE LET value == IF micros.t = "string" THEN parseInt(micros.str)
                      ELSE micros.num
         IN IF isNaN(value) THEN Zero
            ELSE NumDiv(value, Int2Num(MICROS_PER_UNIT))

\* Mutant of toNumber: a string is read with parseInt.
toNumber_Integer(value) ==
    IF value.t = "undefined" \/ value.t = "null" THEN Zero
    ELSE LET num == IF value.t = "string" THEN parseInt(value.str)
                    ELSE value.num
         IN IF isNaN(num) THEN Zero ELSE num

toNumber(value) ==
    IF value.t = "undefined" \/ value.t = "null" THEN Zero
    ELSE LET num == IF value.t = "string" THEN parseFloat(value.str)
                    ELSE value.num
         IN IF isNaN(num) THEN Zero ELSE num

calculateCTR(clicks, impressions) ==
    IF impressions = Zero THEN Zero ELSE NumDiv(clicks, impressions)

\* Mutant of calculateCPC: the zero-guard is left out.
calculateCPC_Unguarded(spend, clicks) == NumDiv(spend, clicks)

calculateCPC(spend, clicks) ==
    IF clicks = Zero THEN Zero ELSE NumDiv(spend, clicks)

\* Mutant of calculateCPM: cost per impression, not per thousand.
calculateCPM_PerImpression(spend, impressions) ==
    IF impressions = Zero THEN Zero ELSE NumDiv(spend, impressions)

calculateCPM(spend, impressions) ==
    IF impressions = Zero THEN Zero
    ELSE NumDiv(NumMul(spend, Int2Num(1000)), impressions)

calculateCPA(spend, conversions) ==
    IF conversions = Zero THEN Zero ELSE NumDiv(spend, conversions)

calculateROAS(conversionValue, spend) ==
    IF spend = Zero THEN Zero ELSE NumDiv(conversionValue, spend)

normalizeMetrics(raw) ==
    LET spend == microsToDecimal(Get(raw, "cost_micros"))
        impressions == toNumber(Get(raw, "impressions"))
        clicks == toNumber(Get(raw, "clicks"))
        conversions == toNumber(Get(raw, "conversions"))
        conversion_value == microsToDecimal(Get(raw, "conversions_value"))
    IN [spend |-> spend,
        impressions |-> impressions,
        clicks |-> clicks,
        conversions |-> conversions,
        conversion_value |-> conversion_value,
        ctr |-> calculateCTR(clicks, impressions),
        cpc |-> calculateCPC(spend, clicks),
        cpm |-> calculateCPM(spend, impressions),
        cpa |-> calculateCPA(spend, conversions),
        roas |-> calculateROAS(conversion_value, spend)]

roundMetric(value, decimals) ==
    LET multiplier == MathPow10(decimals)
    IN NumDiv(MathRound(NumMul(value, multiplier)), multiplier)

\* The default of the parameter decimals of roundMetric.
DEFAULT_DECIMALS == 2

\* roundMetric(value), the second argument left out.
roundMetricDefault(value) == roundMetric(value, DEFAULT_DECIMALS)

\* Mutant of formatMetrics: ctr is rounded to 2 decimals like the rest.
formatMetrics_CtrTwoDecimals(metrics) ==
    [spend |-> roundMetric(metrics.spend, 2),
     impressions |-> MathRound(metrics.impressions),
     clicks |-> MathRound(metrics.clicks),
     conversions |-> roundMetric(metrics.conversions, 2),
     conversion_value |-> roundMetric(metrics.conversion_value, 2),
     ctr |-> roundMetric(metrics.ctr, 2),
     cpc |-> roundMetric(metrics.cpc, 2),
     cpm |-> roundMetric(metrics.cpm, 2),
     cpa |-> roundMetric(metrics.cpa, 2),
     roas |-> roundMetric(metrics.roas, 2)]

formatMetrics(metrics) ==
    [spend |-> roundMetric(metrics.spend, 2),
     impressions |-> MathRound(metrics.impressions),
     clicks |-> MathRound(metrics.clicks),
     conversions |-> roundMetric(metrics.conversions, 2),
     conversion_value |-> roundMetric(metrics.conversion_value, 2),
     ctr |-> roundMetric(metrics.ctr, 4),
     cpc |-> roundMetric(metrics.cpc, 2),
     cpm |-> roundMetric(metrics.cpm, 2),
     cpa |-> roundMetric(metrics.cpa, 2),
     roas |-> roundMetric(metrics.roas, 2)]

(***************************************************************************)
(* field-mapper.ts                                                         *)
(***************************************************************************)
\* A JavaScript object with the properties props (a function on their names).
Object(props) == [t |-> "object", props |-> props]

EmptyObject == Object(<<>>)

IsNullish(v) == v.t = "undefined" \/ v.t = "null"

\* v?.field : undefined when v is null or undefined, else the property.
OptGet(v, field) ==
    IF IsNullish(v) THEN Undefined
    ELSE IF v.t = "object" THEN Get(v.props, field)
    ELSE Undefined

DigitChar(i) ==
    CASE i = 0 -> "0" [] i = 1 -> "1" [] i = 2 -> "2" [] i = 3 -> "3"
      [] i = 4 -> "4" [] i = 5 -> "5" [] i = 6 -> "6" [] i = 7 -> "7"
      [] i = 8 -> "8" [] i = 9 -> "9"

RECURSIVE NatToString(_)
NatToString(i) ==
    IF i < 10 THEN <<DigitChar(i)>>
    ELSE Append(NatToString(i \div 10), DigitChar(i % 10))

OBJECT_STRING ==
    <<"[", "o", "b", "j", "e", "c", "t", " ", "O", "b", "j", "e", "c", "t", "]">>

\* v?.toString() : a string is returned as it is, a whole number as its
\* decimal digits.
OptToString(v) ==
    IF IsNullish(v) THEN Undefined
    ELSE IF v.t = "string" THEN v
    ELSE IF v.t = "number"
         THEN IF v.num.k = "nan" THEN String(<<"N", "a", "N">>)
              ELSE IF v.num.k = "inf"
                   THEN String(IF v.num.n < 0 THEN <<"-">> \o InfinityLiteral
                               ELSE InfinityLiteral)
                   ELSE String((IF v.num.n < 0 THEN <<"-">> ELSE <<>>)
                               \o NatToString(Abs(v.num.n) \div v.num.d))
    ELSE String(OBJECT_STRING)

\* The truth value JavaScript gives v in a condition.
Truthy(v) ==
    CASE v.t = "undefined" -> FALSE
      [] v.t = "null" -> FALSE
      [] v.t = "string" -> Len(v.str) > 0
      [] v.t = "number" -> v.num.k # "nan" /\ v.num # Zero
      [] OTHER -> TRUE

\* v || d
Or(v, d) == IF Truthy(v) THEN v ELSE d

GOOGLE_ADS == <<"g", "o", "o", "g", "l", "e", "_", "a", "d", "s">>

USD == <<"U", "S", "D">>

EmptyString == String(<<>>)

\* What a call returns that ended in an exception.
TypeError == [exception |-> "TypeError"]

\* Mutant of accountName: a missing name gives null, as for the other names.
accountName_NullDefault(row) ==
    Or(OptGet(Get(row, "customer"), "descriptive_name"), Null)

\* Mutant of currency: the caller's default wins over the row's currency.
currency_DefaultFirst(row, defaultCurrency) ==
    Or(defaultCurrency, OptGet(Get(row, "customer"), "currency_code"))

\* The constants mapToStandardizedRow extracts from the row.
accountId(row) ==
    Or(OptToString(OptGet(Get(row, "customer"), "id")), EmptyString)

accountName(row) ==
    Or(OptGet(Get(row, "customer"), "descriptive_name"), EmptyString)

currency(row, defaultCurrency) ==
    Or(OptGet(Get(row, "customer"), "currency_code"), defaultCurrency)

date(row) == Or(OptGet(Get(row, "segments"), "date"), Null)

campaignId(row) == Or(OptToString(OptGet(Get(row, "campaign"), "id")), Null)

campaignName(row) == Or(OptGet(Get(row, "campaign"), "name"), Null)

adId(row) ==
    Or(OptToString(OptGet(OptGet(Get(row, "ad_group_ad"), "ad"), "id")), Null)

adName(row) == Or(OptGet(OptGet(Get(row, "ad_group_ad"), "ad"), "name"), Null)

rawMetrics(row) == Or(Get(row, "metrics"), EmptyObject)

\* A parameter left out, or passed as undefined, takes its default.
DefaultTo(arg, default) == IF arg.t = "undefined" THEN default ELSE arg

\* Mutant of StandardizedRow: the adset pair is filled from the campaign.
StandardizedRow_AdsetFromCampaign(row, defaultCurrency, formatted) ==
    [platform |-> String(GOOGLE_ADS),
     account_id |-> accountId(row),
     account_name |-> accountName(row),
     date |-> date(row),
     campaign_id |-> campaignId(row),
     campaign_name |-> campaignName(row),
     adset_id |-> campaignId(row),
     adset_name |-> campaignName(row),
     ad_id |-> adId(row),
     ad_name |-> adName(row),
     spend |-> formatted.spend,
     impressions |-> formatted.impressions,
     clicks |-> formatted.clicks,
     conversions |-> formatted.conversions,
     conversion_value |-> formatted.conversion_value,
     currency |-> currency(row, defaultCurrency),
     ctr |-> formatted.ctr,
     cpc |-> formatted.cpc,
     cpm |-> formatted.cpm,
     cpa |-> formatted.cpa,
     roas |-> formatted.roas,
     attribution_model |-> Null,
     attribution_window |-> Null]

\* The object mapToStandardizedRow returns.
StandardizedRow(row, defaultCurrency, formatted) ==
    [platform |-> String(GOOGLE_ADS),
     account_id |-> accountId(row),
     account_name |-> accountName(row),
     date |-> date(row),
     campaign_id |-> campaignId(row),
     campaign_name |-> campaignName(row),
     adset_id |-> Null,
     adset_name |-> Null,
     ad_id |-> adId(row),
     ad_name |-> adName(row),
     spend |-> formatted.spend,
     impressions |-> formatted.impressions,
     clicks |-> formatted.clicks,
     conversions |-> formatted.conversions,
     conversion_value |-> formatted.conversion_value,
     currency |-> currency(row, defaultCurrency),
     ctr |-> formatted.ctr,
     cpc |-> formatted.cpc,
     cpm |-> formatted.cpm,
     cpa |-> formatted.cpa,
     roas |-> formatted.roas,
     attribution_model |-> Null,
     attribution_window |-> Null]

\* Mutant of mapToStandardizedRow: the nested objects are read with a plain
\* property access, which throws when the parent is null or undefined.
mapToStandardizedRow_PlainAccess(row, defaultCurrency) ==
    IF \/ IsNullish(Get(row, "customer"))
       \/ IsNullish(Get(row, "campaign"))
       \/ IsNullish(Get(row, "ad_group_ad"))
       \/ IsNullish(OptGet(Get(row, "ad_group_ad"), "ad"))
       \/ IsNullish(Get(row, "segments"))
       \/ IsNullish(Get(row, "metrics"))
    THEN TypeError
    ELSE StandardizedRow(row, DefaultTo(defaultCurrency, String(USD)),
                         formatMetrics(normalizeMetrics(Get(row, "metrics").props)))

\* Mutant of mapToStandardizedRow: the ratios are computed again from the
\* base values as they are displayed.
mapToStandardizedRow_RoundedBases(row, defaultCurrency) ==
    LET f == formatMetrics(normalizeMetrics(rawMetrics(row).props))
        again == [f EXCEPT
                    !.ctr = roundMetric(calculateCTR(f.clicks, f.impressions), 4),
                    !.cpc = roundMetric(calculateCPC(f.spend, f.clicks), 2),
                    !.cpm = roundMetric(calculateCPM(f.spend, f.impressions), 2),
                    !.cpa = roundMetric(calculateCPA(f.spend, f.conversions), 2),
                    !.roas = roundMetric(calculateROAS(f.conversion_value,
                                                       f.spend), 2)]
    IN StandardizedRow(row, DefaultTo(defaultCurrency, String(USD)), again)

mapToStandardizedRow(row, defaultCurrency) ==
    LET normalized == normalizeMetrics(rawMetrics(row).props)
        formatted == formatMetrics(normalized)
    IN StandardizedRow(row, DefaultTo(defaultCurrency, String(USD)), formatted)

\* Mutant of mapRowsToStandardized: the function is handed to map as it is,
\* so that map passes the index of the row as the second argument.
mapRowsToStandardized_IndexAsCurrency(rows, defaultCurrency) ==
    [i \in 1 .. Len(rows) |->
        mapToStandardizedRow(rows[i], Number(Int2Num(i - 1)))]

\* rows.map(row => mapToStandardizedRow(row, defaultCurrency)): a new array
\* with one element for each element of rows, in the same order.
mapRowsToStandardized(rows, defaultCurrency) ==
    [i \in 1 .. Len(rows) |-> mapToStandardizedRow(rows[i], defaultCurrency)]

\* Mutant of buildGAQLFields: the campaign level leaves out campaign.name.
buildGAQLFields_CampaignIdOnly(level) ==
    LET baseFields == <<"customer.id", "customer.descriptive_name",
                        "customer.currency_code">>
        metricFields == <<"metrics.cost_micros", "metrics.impressions",
                          "metrics.clicks", "metrics.conversions",
                          "metrics.conversions_value">>
    IN CASE level = "ACCOUNT" -> baseFields \o metricFields
         [] level = "CAMPAIGN" -> baseFields \o <<"campaign.id">> \o metricFields
         [] level = "AD" ->
                baseFields
                \o <<"campaign.id", "campaign.name", "ad_group_ad.ad.id",
                     "ad_group_ad.ad.name">>
                \o metricFields
         [] OTHER -> baseFields \o metricFields

\* The field list is an array of field names, here a sequence of strings.
buildGAQLFields(level) ==
    LET baseFields == <<"customer.id", "customer.descriptive_name",
                        "customer.currency_code">>
        metricFields == <<"metrics.cost_micros", "metrics.impressions",
                          "metrics.clicks", "metrics.conversions",
                          "metrics.conversions_value">>
    IN CASE level = "ACCOUNT" -> baseFields \o metricFields
         [] level = "CAMPAIGN" ->
                baseFields \o <<"campaign.id", "campaign.name">> \o metricFields
         [] level = "AD" ->
                baseFields
                \o <<"campaign.id", "campaign.name", "ad_group_ad.ad.id",
                     "ad_group_ad.ad.name">>
                \o metricFields
         [] OTHER -> baseFields \o metricFields

\* Mutant of buildGAQLResource: a level that is not known is an error.
buildGAQLResource_Strict(level) ==
    CASE level = "ACCOUNT" -> "customer"
      [] level = "CAMPAIGN" -> "campaign"
      [] level = "AD" -> "ad_group_ad"
      [] OTHER -> "Error"

buildGAQLResource(level) ==
    CASE level = "ACCOUNT" -> "customer"
      [] level = "CAMPAIGN" -> "campaign"
      [] level = "AD" -> "ad_group_ad"
      [] OTHER -> "customer"

(***************************************************************************)
(* tools/get-report.ts                                                     *)
(***************************************************************************)
\* array.includes(x)
Includes(array, x) == \E k \in DOMAIN array : array[k] = x

\* options.breakdowns?.includes('date') ?? true : options is a record that
\* has the field breakdowns or not.
includeDate(options) ==
    IF "breakdowns" \in DOMAIN options
    THEN Includes(options.breakdowns, "date")
    ELSE TRUE

\* The query buildReportQuery builds, as the list it selects, the resource
\* it reads and its limit.  The WHERE clause, made of the date range and the
\* filters, is not part of the model.
buildReportQuery(level, options) ==
    LET fields == buildGAQLFields(level)
        resource == buildGAQLResource(level)
    IN [select |-> IF includeDate(options)
                   THEN Append(fields, "segments.date") ELSE fields,
        from |-> resource,
        limit |-> options.limit]

(***************************************************************************)
(* Inputs                                                                  *)
(***************************************************************************)
MaxCount == 3

MaxMicros == 1

MaxRound == 6

MaxDecimals == 4

RawFields ==
    {"cost_micros", "impressions", "clicks", "conversions", "conversions_value"}

MicrosFields == {"cost_micros", "conversions_value"}

CountFields == {"impressions", "clicks", "conversions"}

MetricFields ==
    {"spend", "impressions", "clicks", "conversions", "conversion_value",
     "ctr", "cpc", "cpm", "cpa", "roas"}

RatioFunctions ==
    {"calculateCTR", "calculateCPC", "calculateCPM", "calculateCPA",
     "calculateROAS"}

STR_INVALID == <<"b", "a", "d">>

STR_PREFIX == <<"1", "2", "a", "b", "c">>

STR_DECIMAL == <<"1", ".", "5">>

STR_INFINITY == InfinityLiteral

STR_MICROS == <<"5", "5", "0", "0", "0", "0", "0">>

CountStrings == {STR_INVALID, STR_PREFIX, STR_DECIMAL, STR_INFINITY}

MicrosStrings ==
    {STR_INVALID, STR_PREFIX, STR_DECIMAL, STR_INFINITY, STR_MICROS}

\* Finite numbers a count field is given: quarters, one of them negative.
CountNumbers == {Fin(n, 4) : n \in -1 .. MaxCount}

\* Finite numbers a money field is given, in micro-units: multiples of half
\* a cent, negative ones included.
MicrosNumbers == {Int2Num(5000 * m) : m \in -MaxMicros .. MaxMicros}

\* Marks a field that the raw object does not have.
Absent == [t |-> "absent", num |-> Zero, str |-> <<>>]

FieldInputs(field) ==
    {Absent, Undefined, Null}
    \cup {String(s) : s \in IF field \in MicrosFields THEN MicrosStrings
                            ELSE CountStrings}
    \cup {Number(x) : x \in IF field \in MicrosFields THEN MicrosNumbers
                            ELSE CountNumbers}

\* The raw metrics object that has the fields of vals which are not Absent.
MakeRaw(vals) ==
    [f \in {g \in DOMAIN vals : vals[g] # Absent} |-> vals[f]]

\* Arguments of a direct call of one of the five ratio functions.
RatioArgs == CountNumbers \cup {Int2Num(MaxCount), PosInf, NaN}

\* Arguments of a direct call of roundMetric: values on and between the
\* multiples of 10^-decimals, of both signs.
RoundValues ==
    {Fin(n, d) : n \in -MaxRound .. MaxRound, d \in {1, 2, 3, 20, 200, 1000}}

\* The parts of a raw row that may be there or not: the nested objects and
\* their leaf fields.
RowParts ==
    {"customer", "customer.id", "customer.descriptive_name",
     "customer.currency_code", "campaign", "campaign.id", "campaign.name",
     "ad_group_ad", "ad_group_ad.ad", "ad_group_ad.ad.id",
     "ad_group_ad.ad.name", "segments", "segments.date", "metrics"}

\* The ways a part is missing: the property is not there, or it is undefined,
\* null or (a leaf only) the empty string.
MissingKinds == {Absent, Undefined, Null, EmptyString}

ID_CUSTOMER == <<"1", "2", "3">>

ID_CAMPAIGN == <<"9", "8">>

ID_AD == <<"4", "2">>

NAME_CUSTOMER == <<"A", "c", "m", "e">>

NAME_CAMPAIGN == <<"S", "a", "l", "e">>

NAME_AD == <<"A", "d">>

DATE == <<"2", "0", "2", "5", "-", "1", "0", "-", "0", "1">>

EUR == <<"E", "U", "R">>

GBP == <<"G", "B", "P">>

\* The metrics objects of the rows: none of the fields, the recorded
\* campaign fixture, values that display rounding changes, and one field only.
RowMetrics ==
    {<<>>,
     [cost_micros |-> String(<<"1", "2", "0", "5", "0", "0", "0", "0", "0">>),
      impressions |-> Number(Int2Num(25000)),
      clicks |-> Number(Int2Num(430)),
      conversions |-> Number(Int2Num(12)),
      conversions_value |->
          String(<<"1", "6", "4", "0", "0", "0", "0", "0", "0", "0">>)],
     [cost_micros |-> Number(Int2Num(-5000)),
      impressions |-> Number(Fin(1, 4)),
      clicks |-> Number(Fin(1, 2)),
      conversions |-> Number(Fin(1, 400)),
      conversions_value |-> String(STR_MICROS)],
     [clicks |-> String(STR_DECIMAL)]}

\* The object with the leaves of parent that are in present; missing is put
\* for a leaf that is not, unless missing is Absent.
MakeObject(leaves, present, missing) ==
    Object([l \in {m \in DOMAIN leaves : m \in present \/ missing # Absent} |->
               IF l \in present THEN leaves[l] ELSE missing])

\* The raw row with the parts in present.  A nested object that is missing
\* is absent, undefined or null; a leaf that is missing is as missing says.
MakeRow(present, missing, numericIds, metrics) ==
    LET gone == IF missing = EmptyString THEN Absent ELSE missing
        id(s, n) == IF numericIds THEN Number(Int2Num(n)) ELSE String(s)
        In(part, leaf) == IF part \o "." \o leaf \in present THEN {leaf} ELSE {}
        customer ==
            MakeObject([id |-> id(ID_CUSTOMER, 0),
                        descriptive_name |-> String(NAME_CUSTOMER),
                        currency_code |-> String(GBP)],
                       In("customer", "id") \cup In("customer", "descriptive_name")
                           \cup In("customer", "currency_code"),
                       missing)
        campaign ==
            MakeObject([id |-> id(ID_CAMPAIGN, 98), name |-> String(NAME_CAMPAIGN)],
                       In("campaign", "id") \cup In("campaign", "name"), missing)
        ad ==
            MakeObject([id |-> id(ID_AD, 42), name |-> String(NAME_AD)],
                       In("ad_group_ad.ad", "id") \cup In("ad_group_ad.ad", "name"),
                       missing)
        ad_group_ad ==
            Object([l \in {m \in {"ad"} : "ad_group_ad.ad" \in present \/ gone # Absent}
                       |-> IF "ad_group_ad.ad" \in present THEN ad ELSE gone])
        segments ==
            MakeObject([date |-> String(DATE)], In("segments", "date"), missing)
        all == [customer |-> customer, campaign |-> campaign,
                ad_group_ad |-> ad_group_ad, segments |-> segments,
                metrics |-> Object(metrics)]
    IN [p \in {q \in DOMAIN all : q \in present \/ gone # Absent} |->
           IF p \in present THEN all[p] ELSE gone]

\* Only a part whose parent is there can be there.
WellFormed(present) ==
    /\ \A l \in {"customer.id", "customer.descriptive_name",
                 "customer.currency_code"} :
          l \in present => "customer" \in present
    /\ \A l \in {"campaign.id", "campaign.name"} :
          l \in present => "campaign" \in present
    /\ "ad_group_ad.ad" \in present => "ad_group_ad" \in present
    /\ \A l \in {"ad_group_ad.ad.id", "ad_group_ad.ad.name"} :
          l \in present => "ad_group_ad.ad" \in present
    /\ "segments.date" \in present => "segments" \in present

\* The longest array of rows passed to mapRowsToStandardized.
MaxRows == 2

\* The rows the arrays are made of: complete rows and partial ones, with
\* each of the metrics objects.
SampleRows ==
    {MakeRow(present, Absent, FALSE, metrics) :
        present \in {RowParts,
                     RowParts \ {"customer.currency_code", "segments.date"},
                     {"metrics"}},
        metrics \in RowMetrics}

RowArrays == UNION {[1 .. n -> SampleRows] : n \in 0 .. MaxRows}

\* Rows mapped in parallel: the number of workers, the longest array they
\* are given and the rows it is made of.
NumWorkers == 2

MaxWorkerRows == 3

Workers == 1 .. NumWorkers

WorkerRows ==
    {MakeRow(RowParts, Absent, FALSE, m) :
        m \in {x \in RowMetrics : "cost_micros" \in DOMAIN x}}
    \cup {MakeRow({}, Absent, FALSE, <<>>)}

WorkerArrays == UNION {[1 .. n -> WorkerRows] : n \in 1 .. MaxWorkerRows}

(***************************************************************************)
(* utils/pagination.ts.  params is undefined or a record that has the      *)
(* members given; a limit is a whole number, a cursor or token a           *)
(* JavaScript value.                                                       *)
(***************************************************************************)
DEFAULT_PAGE_SIZE == 500

MAX_PAGE_SIZE == 10000

MathMin(a, b) == IF a <= b THEN a ELSE b

normalizePaginationParams_NoCap(params) ==
    LET limit == IF params # Undefined /\ "limit" \in DOMAIN params
                    /\ params.limit # 0
                 THEN params.limit ELSE DEFAULT_PAGE_SIZE
    IN IF params # Undefined /\ "cursor" \in DOMAIN params
          /\ Truthy(params.cursor)
       THEN [limit |-> limit, page_token |-> params.cursor]
       ELSE [limit |-> limit]

normalizePaginationParams(params) ==
    LET limit == IF params # Undefined /\ "limit" \in DOMAIN params
                    /\ params.limit # 0
                 THEN params.limit ELSE DEFAULT_PAGE_SIZE
        normalizedLimit == MathMin(limit, MAX_PAGE_SIZE)
    IN IF params # Undefined /\ "cursor" \in DOMAIN params
          /\ Truthy(params.cursor)
       THEN [limit |-> normalizedLimit, page_token |-> params.cursor]
       ELSE [limit |-> normalizedLimit]

createPaginatedResponse_TruthyTotal(rs, nextPageToken, totalResults) ==
    IF totalResults # Undefined /\ Truthy(totalResults)
    THEN [rows |-> rs, next_cursor |-> Or(nextPageToken, Null),
          total_results |-> totalResults]
    ELSE [rows |-> rs, next_cursor |-> Or(nextPageToken, Null)]

createPaginatedResponse(rs, nextPageToken, totalResults) ==
    IF totalResults # Undefined
    THEN [rows |-> rs, next_cursor |-> Or(nextPageToken, Null),
          total_results |-> totalResults]
    ELSE [rows |-> rs, next_cursor |-> Or(nextPageToken, Null)]

(***************************************************************************)
(* resolveDateRange (validation/schemas.ts).  A Date is the local calendar *)
(* day [y, m, d] it falls on; the instant 24 hours before local midnight   *)
(* depends on the length of the day before, which the time zone of the     *)
(* process decides (23 or 25 hours on the days the clock changes).         *)
(***************************************************************************)
Text(s) == String(<<s>>)

DaysInMonth(y, m) ==
    IF m = 2
    THEN IF (y % 4 = 0 /\ y % 100 # 0) \/ y % 400 = 0 THEN 29 ELSE 28
    ELSE IF m \in {4, 6, 9, 11} THEN 30 ELSE 31

\* The day before day.
PrevDay(day) ==
    IF day.d > 1 THEN [day EXCEPT !.d = @ - 1]
    ELSE IF day.m > 1
    THEN [y |-> day.y, m |-> day.m - 1, d |-> DaysInMonth(day.y, day.m - 1)]
    ELSE [y |-> day.y - 1, m |-> 12, d |-> 31]

\* day.setDate(day.getDate() - n)
RECURSIVE SetDateBack(_, _)
SetDateBack(day, n) == IF n = 0 THEN day ELSE SetDateBack(PrevDay(day), n - 1)

\* new Date(today.getTime() - 86400000), today being a local midnight.
Minus24Hours(today, hoursOfDayBefore) ==
    IF hoursOfDayBefore < 24 THEN PrevDay(PrevDay(today)) ELSE PrevDay(today)

\* String(n).padStart(2, '0')
PadStart2(n) == IF n < 10 THEN <<"0">> \o NatToString(n) ELSE NatToString(n)

formatDate(day) ==
    String(NatToString(day.y) \o <<"-">> \o PadStart2(day.m) \o <<"-">>
               \o PadStart2(day.d))

resolveDateRange(dateRange, today, hoursOfDayBefore) ==
    IF Truthy(Get(dateRange, "start_date")) /\ Truthy(Get(dateRange, "end_date"))
    THEN [start_date |-> dateRange.start_date, end_date |-> dateRange.end_date]
    ELSE LET end == formatDate(Minus24Hours(today, hoursOfDayBefore))
             preset == Get(dateRange, "preset")
         IN CASE preset = Text("LAST_7_DAYS") ->
                     [start_date |-> formatDate(SetDateBack(today, 7)),
                      end_date |-> end]
              [] preset = Text("LAST_30_DAYS") ->
                     [start_date |-> formatDate(SetDateBack(today, 30)),
                      end_date |-> end]
              [] preset = Text("MTD") ->
                     [start_date |-> formatDate([today EXCEPT !.d = 1]),
                      end_date |-> end]
              [] preset = Text("YTD") ->
                     [start_date |->
                          formatDate([today EXCEPT !.m = 1, !.d = 1]),
                      end_date |-> end]
              [] OTHER -> [exception |-> "Error"]

(***************************************************************************)
(* getReport called page after page.  The upstream rows of an account are  *)
(* in pages; a row is named by its account and its page, and the token of  *)
(* a page is made of the same pair.  The rows stand for themselves here,   *)
(* since what mapRowsToStandardized makes of them is not in question.      *)
(***************************************************************************)
\* client.query for one account: the first page without a token, the page a
\* token of this account names, and for any other token either an error or,
\* when the upstream ignores it, the first page again.
UpstreamQuery(pages, foreign, account, pageToken) ==
    LET page == IF pageToken = Undefined THEN 1
                ELSE IF pageToken.str[1] = account THEN pageToken.str[2]
                ELSE IF foreign = "ignored" THEN 1
                ELSE 0
    IN IF page = 0
       THEN [ok |-> FALSE]
       ELSE [ok |-> TRUE,
             results |-> <<<<account, page>>>>,
             next_page_token |-> IF page < pages[account]
                                 THEN String(<<account, page + 1>>)
                                 ELSE Undefined]

\* if (next_page_token) { nextCursor = next_page_token; }
NextCursorAfter(nextCursor, answer) ==
    IF answer.ok /\ Truthy(answer.next_page_token)
    THEN answer.next_page_token
    ELSE nextCursor

\* The loop of getReport over the accounts from account on: every query is
\* sent with the page token of the request.
RECURSIVE ReportLoop(_, _, _, _, _, _)
ReportLoop(pages, foreign, pageToken, account, allRows, nextCursor) ==
    IF account > Len(pages)
    THEN createPaginatedResponse(allRows, nextCursor, Undefined)
    ELSE LET answer == UpstreamQuery(pages, foreign, account, pageToken)
         IN ReportLoop(pages, foreign, pageToken, account + 1,
                       IF answer.ok THEN allRows \o answer.results
                       ELSE allRows,
                       NextCursorAfter(nextCursor, answer))

\* getReport for a request whose paging is paging.
getReportPage(pages, foreign, paging) ==
    LET pagination == normalizePaginationParams(paging)
    IN ReportLoop(pages, foreign, Get(pagination, "page_token"), 1, <<>>, Null)

(***************************************************************************)
(* The CallTool handler (server.ts).  An error is the record of its        *)
(* properties, a text the sequence of its parts; what JSON.stringify makes *)
(* of an object is the object without its undefined members.               *)
(***************************************************************************)
createErrorResponse(type, message, upstreamCode, retryAfterSeconds) ==
    [error |-> [type |-> Text(type),
                message |-> message,
                upstream_code |-> Or(upstreamCode, Null),
                retry_after_seconds |-> Or(retryAfterSeconds, Null)]]

JSONStringify(obj) == [f \in {g \in DOMAIN obj : obj[g] # Undefined} |-> obj[f]]

\* The tools of the switch; three of them parse their arguments.
ToolNames ==
    {"get_accounts", "get_campaigns", "get_ads", "get_report",
     "get_rate_limit_status", "healthcheck"}

ParsingTools == {"get_campaigns", "get_ads", "get_report"}

\* error.originalError || error
OriginalError(error) ==
    IF Truthy(Get(error, "originalError"))
    THEN error.originalError.props
    ELSE error

HandleFailure_AlwaysUpstream(error) ==
    [content |-> createErrorResponse("UPSTREAM", Get(error, "message"),
                                     Undefined, Undefined),
     isError |-> TRUE]

\* The catch block of the handler.
HandleFailure(error) ==
    LET originalError == OriginalError(error)
    IN IF Get(error, "name") = Text("ZodError")
       THEN [content |->
                 createErrorResponse(
                     "VALIDATION",
                     String(<<"Validation error: ">>
                                \o Get(error, "message").str),
                     Text("VALIDATION_ERROR"), Undefined),
             isError |-> TRUE]
       ELSE IF "errorResponse" \in DOMAIN error
       THEN [content |->
                 [error |->
                     JSONStringify(
                         [f \in DOMAIN error.errorResponse.error
                                \cup {"original_message", "details",
                                      "metadata"} |->
                             CASE f = "original_message" ->
                                      IF Get(originalError, "message")
                                             # Get(error, "message")
                                      THEN Get(originalError, "message")
                                      ELSE Undefined
                               [] f = "details" ->
                                      Or(Get(originalError, "details"),
                                         Undefined)
                               [] f = "metadata" ->
                                      Or(Get(originalError, "metadata"),
                                         Undefined)
                               [] OTHER -> error.errorResponse.error[f]])],
             isError |-> TRUE]
       ELSE [content |->
                 createErrorResponse(
                     "UNKNOWN",
                     Or(Or(Get(originalError, "message"),
                           Get(error, "message")),
                        Text("Unknown error occurred")),
                     Or(Get(originalError, "code"), Get(error, "code")),
                     Undefined),
             isError |-> TRUE]

\* The handler: the switch over the tool name inside try, then the catch
\* block.  outcome is what the tool did: a result, or the error it threw.
CallToolHandler(toolName, outcome) ==
    IF toolName \notin ToolNames
    THEN HandleFailure([name |-> Text("Error"),
                        message |-> String(<<"Unknown tool: ", toolName>>)])
    ELSE IF "result" \in DOMAIN outcome
    THEN [content |-> outcome.result]
    ELSE HandleFailure(outcome.thrown)

(***************************************************************************)
(* withRetry (utils/logger.ts).  Delays are whole milliseconds; the        *)
(* jitter factor 0.3 and the values of Math.random() are kept in tenths.   *)
(* An error is a record that has the properties the thrown value has; its  *)
(* message is the sequence of its words.                                   *)
(***************************************************************************)
DEFAULT_OPTIONS ==
    [maxRetries |-> 3, initialDelayMs |-> 1000, maxDelayMs |-> 30000,
     jitterFactorTenths |-> 3]

\* message.includes(word)
StringIncludes(message, word) == \E k \in DOMAIN message : message[k] = word

\* { ...DEFAULT_OPTIONS, ...options }
MergeOptions(options) ==
    [f \in DOMAIN DEFAULT_OPTIONS |->
        IF f \in DOMAIN options THEN options[f] ELSE DEFAULT_OPTIONS[f]]

\* error.retryAfterSeconds ? error.retryAfterSeconds * 1000 : undefined
\* (0 stands for undefined: calculateDelay tests only its truthiness)
retryAfterMs(error) ==
    IF "retryAfterSeconds" \in DOMAIN error /\ error.retryAfterSeconds # 0
    THEN error.retryAfterSeconds * 1000
    ELSE 0

calculateDelay_NoCap(attempt, options, retryAfter, randomTenths) ==
    IF retryAfter # 0
    THEN retryAfter
    ELSE LET exponentialDelay == options.initialDelayMs * (2 ^ attempt)
             jitter == (exponentialDelay * options.jitterFactorTenths
                            * randomTenths) \div 100
         IN exponentialDelay + jitter

calculateDelay(attempt, options, retryAfter, randomTenths) ==
    IF retryAfter # 0
    THEN MathMin(retryAfter, options.maxDelayMs)
    ELSE LET exponentialDelay == options.initialDelayMs * (2 ^ attempt)
             jitter == (exponentialDelay * options.jitterFactorTenths
                            * randomTenths) \div 100
             totalDelay == exponentialDelay + jitter
         IN MathMin(totalDelay, options.maxDelayMs)

isRetryableError_All(error) == TRUE

isRetryableError(error) ==
    IF "code" \in DOMAIN error /\ error.code \in {"ECONNRESET", "ETIMEDOUT"}
    THEN TRUE
    ELSE IF "statusCode" \in DOMAIN error /\ error.statusCode = 429
    THEN TRUE
    ELSE IF /\ "statusCode" \in DOMAIN error
            /\ error.statusCode >= 500
            /\ error.statusCode < 600
    THEN TRUE
    ELSE IF /\ "name" \in DOMAIN error
            /\ error.name = "GoogleAdsError"
            /\ "message" \in DOMAIN error
            /\ StringIncludes(error.message, "RATE_EXCEEDED")
    THEN TRUE
    ELSE FALSE

\* The error GoogleAdsClient.normalizeError makes of a rate-limit failure.
RateLimitError ==
    [name |-> "Error", statusCode |-> 429, retryAfterSeconds |-> 60,
     message |-> <<"Rate", "limit", "exceeded:", "RATE_EXCEEDED">>]

\* GoogleAdsClient.normalizeError.  An upstream error is a record with the
\* properties it has; message.includes is tested on the words of the message.
MessageOf(error) == IF "message" \in DOMAIN error THEN error.message ELSE <<>>

NormalizedError(type, statusCode, message, error) ==
    [name |-> "Error", message |-> message, statusCode |-> statusCode,
     errorResponse |->
         createErrorResponse(type, String(message),
                             IF "code" \in DOMAIN error
                             THEN Text(error.code) ELSE Undefined,
                             Undefined),
     originalError |-> error]

normalizeError_RateLimitFirst(error) ==
    LET message == MessageOf(error)
    IN IF StringIncludes(message, "RATE_EXCEEDED")
          \/ StringIncludes(message, "RESOURCE_EXHAUSTED")
       THEN NormalizedError("RATE_LIMIT", 429, <<"Rate limit exceeded:">> \o message,
                       error)
       ELSE NormalizedError("AUTH", 401, <<"Authentication failed:">> \o message,
                       error)

normalizeError(error) ==
    LET message == MessageOf(error)
    IN IF StringIncludes(message, "authentication")
          \/ StringIncludes(message, "unauthorized")
       THEN NormalizedError("AUTH", 401, <<"Authentication failed:">> \o message,
                       error)
       ELSE IF StringIncludes(message, "RATE_EXCEEDED")
               \/ StringIncludes(message, "RESOURCE_EXHAUSTED")
       THEN [f \in {"name", "message", "statusCode", "errorResponse",
                    "originalError", "retryAfterSeconds"} |->
                CASE f = "retryAfterSeconds" -> 60
                  [] f = "errorResponse" ->
                         createErrorResponse(
                             "RATE_LIMIT",
                             String(<<"Rate limit exceeded:">> \o message),
                             IF "code" \in DOMAIN error
                             THEN Text(error.code) ELSE Undefined,
                             Number(Int2Num(60)))
                  [] OTHER ->
                         NormalizedError("RATE_LIMIT", 429,
                                    <<"Rate limit exceeded:">> \o message,
                                    error)[f]]
       ELSE IF StringIncludes(message, "NOT_FOUND")
               \/ StringIncludes(message, "does not exist")
       THEN NormalizedError("NOT_FOUND", 404, <<"Resource not found:">> \o message,
                       error)
       ELSE IF StringIncludes(message, "INVALID")
               \/ StringIncludes(message, "validation")
       THEN NormalizedError("VALIDATION", 400, message, error)
       ELSE NormalizedError("UPSTREAM",
                       IF "statusCode" \in DOMAIN error /\ error.statusCode # 0
                       THEN error.statusCode ELSE 500,
                       IF message # <<>> THEN message
                       ELSE IF "details" \in DOMAIN error
                       THEN <<error.details>>
                       ELSE <<"Unknown error from Google Ads API">>,
                       error)

\* Errors the library call of GoogleAdsClient.query fails with.
UpstreamErrors ==
    {[message |-> <<"authentication">>],
     [message |-> <<"unauthorized", "RATE_EXCEEDED">>],
     [message |-> <<"RATE_EXCEEDED">>, code |-> "8"],
     [message |-> <<"RESOURCE_EXHAUSTED", "NOT_FOUND">>],
     [message |-> <<"NOT_FOUND">>],
     [message |-> <<"does not exist", "INVALID">>],
     [message |-> <<"INVALID">>],
     [message |-> <<"validation">>, statusCode |-> 503],
     [message |-> <<"socket hang up">>, code |-> "ECONNRESET"],
     [message |-> <<"forbidden">>, statusCode |-> 403],
     [message |-> <<"unavailable">>, statusCode |-> 503],
     [details |-> "details"]}

\* Values fn rejects with.
RetryErrors ==
    {[code |-> "ECONNRESET"], [code |-> "ETIMEDOUT"], [code |-> "ENOTFOUND"],
     RateLimitError, [statusCode |-> 429], [statusCode |-> 500],
     [statusCode |-> 599], [statusCode |-> 600], [statusCode |-> 499],
     [statusCode |-> 404],
     [statusCode |-> 503, retryAfterSeconds |-> 5],
     [statusCode |-> 503, retryAfterSeconds |-> 0],
     [name |-> "GoogleAdsError", message |-> <<"RATE_EXCEEDED">>],
     [name |-> "GoogleAdsError", message |-> <<"INVALID_ARGUMENT">>],
     [name |-> "GoogleAdsError"],
     [name |-> "Error", message |-> <<"RATE_EXCEEDED">>]}

\* Values of Math.random(), in tenths.
RandomTenths == {0, 5, 9}

\* The options argument of withRetry: left out, or with one member.
RetryOptionSets ==
    {<<>>, [maxRetries |-> 0], [maxRetries |-> 1], [maxDelayMs |-> 120000],
     [maxDelayMs |-> 2000]}

\* Levels passed to the GAQL builders: the three of the type and values
\* outside it.
Levels == {"ACCOUNT", "CAMPAIGN", "AD"}

OtherLevels == {"AD_GROUP", "campaign", ""}

\* The breakdowns of a get_report request, when it has any.
BreakdownLists ==
    {<<>>, <<"date">>, <<"device">>, <<"device", "date">>}

\* The most accounts one report is asked for.
MaxAccounts == 2

\* A validated get_report request: its level, the number of accounts it is
\* run for (those it names or, when it names none, those
\* listAccessibleCustomers gives) and, optionally, its breakdowns.
Requests ==
    {[level |-> l, accounts |-> n] : l \in Levels, n \in 0 .. MaxAccounts}
    \cup {[level |-> l, accounts |-> n, breakdowns |-> b] :
              l \in Levels, n \in 0 .. MaxAccounts, b \in BreakdownLists}

\* The parts of a raw row that a selected field brings.
PartsOf(field) ==
    CASE field = "customer.id" -> {"customer", "customer.id"}
      [] field = "customer.descriptive_name" ->
             {"customer", "customer.descriptive_name"}
      [] field = "customer.currency_code" ->
             {"customer", "customer.currency_code"}
      [] field = "campaign.id" -> {"campaign", "campaign.id"}
      [] field = "campaign.name" -> {"campaign", "campaign.name"}
      [] field = "ad_group_ad.ad.id" ->
             {"ad_group_ad", "ad_group_ad.ad", "ad_group_ad.ad.id"}
      [] field = "ad_group_ad.ad.name" ->
             {"ad_group_ad", "ad_group_ad.ad", "ad_group_ad.ad.name"}
      [] field = "segments.date" -> {"segments", "segments.date"}
      [] OTHER -> {"metrics"}

\* What client.query answers: an error, or rows that hold the fields the
\* query selects and no other.
QueryResults(q) ==
    LET parts == UNION {PartsOf(q.select[k]) : k \in DOMAIN q.select}
        metrics == {x \in RowMetrics : "cost_micros" \in DOMAIN x}
    IN {<<>>}
       \cup {<<MakeRow(parts, Absent, numericIds, m)>> :
                 numericIds \in BOOLEAN, m \in metrics}
       \cup {<<MakeRow(parts, Absent, FALSE, pair[1]),
               MakeRow(parts, Absent, FALSE, pair[2])>> :
                 pair \in {x \in metrics \X metrics : x[1] # x[2]}}

\* Limits and cursors a caller passes to normalizePaginationParams.
PageLimits == {-1, 0, 1, 2, 500, 9999, 10000, 10001, 20000}

TOKEN_A == <<"p", "2">>

TOKEN_B == <<"p", "3">>

PageCursors == {Null, EmptyString, String(TOKEN_A), String(TOKEN_B)}

PaginationParams ==
    {Undefined, <<>>}
    \cup {[limit |-> l] : l \in PageLimits}
    \cup {[cursor |-> c] : c \in PageCursors}
    \cup {[limit |-> l, cursor |-> c] : l \in PageLimits, c \in PageCursors}

\* Row arrays, next page tokens and totals given to createPaginatedResponse.
PageRows == {<<>>, <<"r1">>, <<"r1", "r2">>, <<"r2", "r1">>, <<"r1", "r1">>}

PageTokens == PageCursors \cup {Undefined}

PageTotals == {Undefined, Number(Int2Num(0)), Number(Int2Num(2))}

\* The days the process can run on, and the lengths of the day before.
Years == 2023 .. 2025

Todays ==
    {[y |-> y, m |-> m, d |-> d] : y \in Years, m \in 1 .. 12, d \in 1 .. 31}
        \cap {day \in [y : Years, m : 1 .. 12, d : 1 .. 31] :
                  day.d <= DaysInMonth(day.y, day.m)}

DayLengths == {23, 24, 25}

Presets == {"LAST_7_DAYS", "LAST_30_DAYS", "MTD", "YTD"}

START_DATE == <<"2", "0", "2", "4", "-", "0", "3", "-", "1", "5">>

END_DATE == <<"2", "0", "2", "4", "-", "0", "1", "-", "3", "1">>

\* Date ranges DateRangeSchema accepts: a preset, with explicit dates or
\* without, or both explicit dates.
DateRanges ==
    {[preset |-> Text(p)] : p \in Presets}
    \cup {[preset |-> Text(p), start_date |-> String(START_DATE)] :
              p \in Presets}
    \cup {[preset |-> Text(p), end_date |-> String(END_DATE)] : p \in Presets}
    \cup {[preset |-> Text(p), start_date |-> String(START_DATE),
           end_date |-> String(END_DATE)] : p \in Presets}
    \cup {[start_date |-> String(START_DATE), end_date |-> String(END_DATE)]}

\* The most pages an account has, and the most requests a client sends.
MaxPages == 4

MaxCalls == 6

\* The number of pages of each requested account.
PageCounts == UNION {[1 .. n -> 1 .. MaxPages] : n \in 1 .. MaxAccounts}

\* Names a CallTool request can carry beside the six tools.
OtherToolNames == {"get_adsets", ""}

\* Errors a tool throws: those GoogleAdsClient.normalizeError and
\* createGoogleAdsClientFromRequest build, a ZodError of parse, a TypeError.
ClientErrors ==
    {[name |-> Text("Error"), message |-> Text(m),
      errorResponse |-> createErrorResponse(t, Text(m), code, retryAfter)] :
        t \in {"AUTH", "RATE_LIMIT", "NOT_FOUND", "VALIDATION", "UPSTREAM"},
        m \in {"failed"},
        code \in {Undefined, Text("3")},
        retryAfter \in {Undefined, Number(Int2Num(60))}}

UpstreamCauses ==
    {Object([message |-> Text("failed")]),
     Object([message |-> Text("RATE_EXCEEDED"), code |-> Text("8")]),
     Object([message |-> Text("INVALID"), details |-> Text("details")]),
     Object([details |-> Text("details"), metadata |-> Text("metadata")])}

ToolFailures(toolName) ==
    ClientErrors
    \cup {[f \in DOMAIN e \cup {"originalError"} |->
              IF f = "originalError" THEN cause ELSE e[f]] :
              e \in ClientErrors, cause \in UpstreamCauses}
    \cup {[name |-> Text("TypeError"),
           message |-> Text("Cannot read properties of undefined")],
          [name |-> Text("Error")]}
    \cup (IF toolName \in ParsingTools
          THEN {[name |-> Text("ZodError"), message |-> Text("Required")],
                [name |-> Text("ZodError"), message |-> Text("Invalid enum"),
                 errorResponse |->
                     createErrorResponse("UNKNOWN", Text("x"), Undefined,
                                         Undefined)]}
          ELSE {})

ToolOutcomes(toolName) ==
    {[result |-> Text("result")]}
    \cup {[thrown |-> e] : e \in ToolFailures(toolName)}

(***************************************************************************)
(* State: the call in progress and what it returned                        *)
(***************************************************************************)
VARIABLES op, raw, normalized, formatted, call, row, defaultCurrency, mapped,
          rows, mappedRows,
          workerPc, workerIndex, locals, output,
          request, query, results, report, gaql,
          retry,
          util, tool, pager, client, http

metricsVars == <<raw, normalized, formatted, call>>

mapperVars == <<row, defaultCurrency, mapped, rows, mappedRows>>

\* Rows mapped by several workers: where each worker is in its call, the
\* index of the row it maps, the constants of each call, and the output array.
workerVars == <<workerPc, workerIndex, locals, output>>

\* A get_report request, the query built for it, the rows the API returned
\* and the rows of the response; gaql is a direct call of a GAQL builder.
reportVars == <<request, query, results, report, gaql>>

\* A call of withRetry in progress.
retryVars == <<retry>>

\* A direct call of a utility function (util), a tool call in the CallTool
\* handler (tool), a client that pages through a report (pager), a call of
\* GoogleAdsClient.query (client) and the HTTP server with its sessions (http).
extraVars == <<util, tool, pager, client, http>>

restVars == <<workerVars, reportVars, retryVars, extraVars>>

vars == <<op, metricsVars, mapperVars, restVars>>

None == <<>>

Init ==
    /\ op = "idle"
    /\ raw = None
    /\ normalized = None
    /\ formatted = None
    /\ call = None
    /\ row = None
    /\ defaultCurrency = None
    /\ mapped = None
    /\ rows = None
    /\ mappedRows = None
    /\ workerPc = None
    /\ workerIndex = None
    /\ locals = None
    /\ output = None
    /\ request = None
    /\ query = None
    /\ results = None
    /\ report = None
    /\ gaql = None
    /\ retry = None
    /\ util = None
    /\ tool = None
    /\ pager = None
    /\ client = None
    /\ http = None

\* A call that has not yet come to its return or throw.
Busy ==
    \/ op = "getReport"
    \/ op = "withRetry" /\ retry.pc \in {"calling", "sleeping"}
    \/ op = "workers" /\ \E i \in DOMAIN output : output[i] = None
    \/ op = "paging" /\ pager.cursor # Null /\ pager.calls < MaxCalls

\* A caller passes a raw metrics object to normalizeMetrics.
NormalizeMetrics ==
    /\ op = "idle"
    /\ \E cost \in FieldInputs("cost_micros"),
          imp \in FieldInputs("impressions"),
          cl \in FieldInputs("clicks"),
          conv \in FieldInputs("conversions"),
          val \in FieldInputs("conversions_value") :
          LET r == MakeRaw([cost_micros |-> cost, impressions |-> imp,
                            clicks |-> cl, conversions |-> conv,
                            conversions_value |-> val])
          IN /\ raw' = r
             /\ normalized' = normalizeMetrics(r)
    /\ op' = "normalizeMetrics"
    /\ UNCHANGED <<formatted, call, mapperVars, restVars>>

\* The caller passes the record normalizeMetrics returned to formatMetrics.
FormatMetrics ==
    /\ op = "normalizeMetrics"
    /\ op' = "formatMetrics"
    /\ formatted' = formatMetrics(normalized)
    /\ UNCHANGED <<raw, normalized, call, mapperVars, restVars>>

ratioResult(fn, a, b) ==
    CASE fn = "calculateCTR" -> calculateCTR(a, b)
      [] fn = "calculateCPC" -> calculateCPC(a, b)
      [] fn = "calculateCPM" -> calculateCPM(a, b)
      [] fn = "calculateCPA" -> calculateCPA(a, b)
      [] fn = "calculateROAS" -> calculateROAS(a, b)

\* A direct call of one of the five exported ratio functions.
CalculateRatio ==
    /\ op = "idle"
    /\ \E fn \in RatioFunctions, a \in RatioArgs, b \in RatioArgs :
          call' = [fn |-> fn, a |-> a, b |-> b, decimals |-> 0,
                   result |-> ratioResult(fn, a, b)]
    /\ op' = "calculateRatio"
    /\ UNCHANGED <<raw, normalized, formatted, mapperVars, restVars>>

\* A direct call of roundMetric with both arguments.
RoundMetric ==
    /\ op = "idle"
    /\ \E value \in RoundValues, decimals \in 0 .. MaxDecimals :
          call' = [fn |-> "roundMetric", a |-> value, b |-> Zero,
                   decimals |-> decimals,
                   result |-> roundMetric(value, decimals)]
    /\ op' = "roundMetric"
    /\ UNCHANGED <<raw, normalized, formatted, mapperVars, restVars>>

\* A direct call of roundMetric with the decimals left out.
RoundMetricDefault ==
    /\ op = "idle"
    /\ \E value \in RoundValues :
          call' = [fn |-> "roundMetric", a |-> value, b |-> Zero,
                   decimals |-> DEFAULT_DECIMALS,
                   result |-> roundMetricDefault(value)]
    /\ op' = "roundMetricDefault"
    /\ UNCHANGED <<raw, normalized, formatted, mapperVars, restVars>>

\* The call is over; the functions keep nothing between calls.
Return ==
    /\ op # "idle"
    /\ ~Busy
    /\ op' = "idle"
    /\ raw' = None
    /\ normalized' = None
    /\ formatted' = None
    /\ call' = None
    /\ row' = None
    /\ defaultCurrency' = None
    /\ mapped' = None
    /\ rows' = None
    /\ mappedRows' = None
    /\ workerPc' = None
    /\ workerIndex' = None
    /\ locals' = None
    /\ output' = None
    /\ request' = None
    /\ query' = None
    /\ results' = None
    /\ report' = None
    /\ gaql' = None
    /\ retry' = None
    /\ util' = None
    /\ tool' = None
    /\ pager' = None
    /\ client' = None
    /\ http' = None

Next ==
    \/ NormalizeMetrics
    \/ FormatMetrics
    \/ CalculateRatio
    \/ RoundMetric
    \/ RoundMetricDefault
    \/ Return

Spec == Init /\ [][Next]_vars

\* A caller passes a raw row to mapToStandardizedRow, with a default
\* currency or without one.
MapToStandardizedRow ==
    /\ op = "idle"
    /\ \E present \in {p \in SUBSET RowParts : WellFormed(p)},
          missing \in MissingKinds,
          numericIds \in BOOLEAN,
          metrics \in RowMetrics,
          currencyArg \in {Undefined, String(EUR)} :
          LET r == MakeRow(present, missing, numericIds, metrics)
          IN /\ row' = r
             /\ defaultCurrency' = currencyArg
             /\ mapped' = mapToStandardizedRow(r, currencyArg)
    /\ op' = "mapToStandardizedRow"
    /\ UNCHANGED <<metricsVars, rows, mappedRows, restVars>>

\* A caller passes an array of raw rows to mapRowsToStandardized, with a
\* default currency or without one.
MapRowsToStandardized ==
    /\ op = "idle"
    /\ \E rs \in RowArrays, currencyArg \in {Undefined, String(EUR)} :
          /\ rows' = rs
          /\ defaultCurrency' = currencyArg
          /\ mappedRows' = mapRowsToStandardized(rs, currencyArg)
    /\ op' = "mapRowsToStandardized"
    /\ UNCHANGED <<metricsVars, row, mapped, restVars>>

NextMapper == MapToStandardizedRow \/ MapRowsToStandardized \/ Return

SpecMapper == Init /\ [][NextMapper]_vars

(***************************************************************************)
(* mapToStandardizedRow called by several workers on the rows of one       *)
(* array.  A call is taken in the steps of its body: the parameters are    *)
(* bound, normalizeMetrics is called, formatMetrics is called, the         *)
(* returned object is built.                                               *)
(***************************************************************************)
\* Mutant of Frame: the constants of the body are kept in one place for all
\* the calls, as module-level variables would be.
Frame_Shared(w) == 1

\* The activation record of the call worker w is running: row, normalized
\* and formatted are parameters and constants of the function body, so each
\* call has its own.
Frame(w) == w

\* The row is being mapped by some worker.
InProgress(i) ==
    \E w \in Workers : workerPc[w] # "idle" /\ workerIndex[w] = i

\* An array of rows is handed to the workers.
StartWorkers ==
    /\ op = "idle"
    /\ \E rs \in WorkerArrays :
          /\ rows' = rs
          /\ output' = [i \in DOMAIN rs |-> None]
    /\ workerPc' = [w \in Workers |-> "idle"]
    /\ workerIndex' = [w \in Workers |-> 0]
    /\ locals' = [w \in Workers |->
                     [row |-> None, normalized |-> None, formatted |-> None]]
    /\ op' = "workers"
    /\ UNCHANGED <<metricsVars, row, defaultCurrency, mapped, mappedRows,
                   reportVars, retryVars,
                   extraVars>>

\* Worker w calls mapToStandardizedRow(rows[i]) for a row not yet mapped.
WorkerCall(w) ==
    /\ op = "workers"
    /\ workerPc[w] = "idle"
    /\ \E i \in DOMAIN rows :
          /\ output[i] = None
          /\ ~InProgress(i)
          /\ workerIndex' = [workerIndex EXCEPT ![w] = i]
          /\ locals' = [locals EXCEPT ![Frame(w)].row = rows[i]]
    /\ workerPc' = [workerPc EXCEPT ![w] = "normalize"]
    /\ UNCHANGED <<op, metricsVars, mapperVars, output, reportVars, retryVars,
                   extraVars>>

\* const normalized = normalizeMetrics(row.metrics || {})
WorkerNormalize(w) ==
    /\ op = "workers"
    /\ workerPc[w] = "normalize"
    /\ locals' = [locals EXCEPT ![Frame(w)].normalized =
                     normalizeMetrics(rawMetrics(locals[Frame(w)].row).props)]
    /\ workerPc' = [workerPc EXCEPT ![w] = "format"]
    /\ UNCHANGED <<op, metricsVars, mapperVars, workerIndex, output,
                   reportVars, retryVars,
                   extraVars>>

\* const formatted = formatMetrics(normalized)
WorkerFormat(w) ==
    /\ op = "workers"
    /\ workerPc[w] = "format"
    /\ locals' = [locals EXCEPT ![Frame(w)].formatted =
                     formatMetrics(locals[Frame(w)].normalized)]
    /\ workerPc' = [workerPc EXCEPT ![w] = "return"]
    /\ UNCHANGED <<op, metricsVars, mapperVars, workerIndex, output,
                   reportVars, retryVars,
                   extraVars>>

\* The call returns its object, which is put at the index of its row.
WorkerReturn(w) ==
    /\ op = "workers"
    /\ workerPc[w] = "return"
    /\ output' = [output EXCEPT ![workerIndex[w]] =
                     StandardizedRow(locals[Frame(w)].row,
                                     DefaultTo(Undefined, String(USD)),
                                     locals[Frame(w)].formatted)]
    /\ workerPc' = [workerPc EXCEPT ![w] = "idle"]
    /\ UNCHANGED <<op, metricsVars, mapperVars, workerIndex, locals,
                   reportVars, retryVars,
                   extraVars>>

NextWorkers ==
    \/ StartWorkers
    \/ \E w \in Workers : WorkerCall(w)
    \/ \E w \in Workers : WorkerNormalize(w)
    \/ \E w \in Workers : WorkerFormat(w)
    \/ \E w \in Workers : WorkerReturn(w)
    \/ Return

SpecWorkers == Init /\ [][NextWorkers]_vars

(***************************************************************************)
(* get_report and the GAQL builders                                        *)
(***************************************************************************)
\* A direct call of buildGAQLFields.
BuildGAQLFields ==
    /\ op = "idle"
    /\ \E level \in Levels \cup OtherLevels :
          gaql' = [fn |-> "buildGAQLFields", level |-> level,
                   result |-> buildGAQLFields(level)]
    /\ op' = "buildGAQL"
    /\ UNCHANGED <<metricsVars, mapperVars, workerVars, request, query,
                   results, report, retryVars,
                   extraVars>>

\* A direct call of buildGAQLResource.
BuildGAQLResource ==
    /\ op = "idle"
    /\ \E level \in Levels \cup OtherLevels :
          gaql' = [fn |-> "buildGAQLResource", level |-> level,
                   result |-> buildGAQLResource(level)]
    /\ op' = "buildGAQL"
    /\ UNCHANGED <<metricsVars, mapperVars, workerVars, request, query,
                   results, report, retryVars,
                   extraVars>>

\* getReport is called with a validated request; the rows of the response
\* are collected in report.
GetReport ==
    /\ op = "idle"
    /\ \E r \in Requests : request' = r
    /\ report' = [next |-> 1, allRows |-> <<>>, failed |-> {},
                  answers |-> <<>>]
    /\ op' = "getReport"
    /\ UNCHANGED <<metricsVars, mapperVars, workerVars, query, results, gaql,
                   retryVars,
                   extraVars>>

\* Mutant of QueryFailed: the error ends the loop.
QueryFailed_Abort(rep) ==
    [rep EXCEPT !.next = MaxAccounts + 2,
                !.failed = @ \cup {rep.next},
                !.answers = Append(@, [ok |-> FALSE])]

\* The catch block of the loop: the error is logged and the loop goes on
\* with the next account.  report.answers keeps what each account answered.
QueryFailed(rep) ==
    [rep EXCEPT !.next = @ + 1,
                !.failed = @ \cup {rep.next},
                !.answers = Append(@, [ok |-> FALSE])]

\* One turn of the loop over the accounts: the query is built and sent;
\* either it fails, which is logged and skipped, or its rows are mapped and
\* added to the response.
QueryAccount ==
    /\ op = "getReport"
    /\ report.next <= request.accounts
    /\ LET options == [f \in (DOMAIN request \ {"level", "accounts"})
                              \cup {"limit"} |->
                          IF f = "limit" THEN DEFAULT_PAGE_SIZE ELSE request[f]]
           q == buildReportQuery(request.level, options)
       IN /\ query' = q
          /\ \/ /\ results' = "error"
                /\ report' = QueryFailed(report)
             \/ \E rs \in QueryResults(q) :
                   /\ results' = rs
                   /\ report' = [report EXCEPT
                                   !.next = @ + 1,
                                   !.allRows =
                                       @ \o mapRowsToStandardized(rs, Undefined),
                                   !.answers =
                                       Append(@, [ok |-> TRUE, results |-> rs])]
    /\ UNCHANGED <<op, metricsVars, mapperVars, workerVars, request, gaql,
                   retryVars,
                   extraVars>>

\* All the accounts were queried: the response is returned.
RespondReport ==
    /\ op = "getReport"
    /\ report.next > request.accounts
    /\ op' = "getReportDone"
    /\ UNCHANGED <<metricsVars, mapperVars, workerVars, reportVars, retryVars,
                   extraVars>>

NextReport ==
    \/ BuildGAQLFields
    \/ BuildGAQLResource
    \/ GetReport
    \/ QueryAccount
    \/ RespondReport
    \/ Return

SpecReport == Init /\ [][NextReport]_vars

(***************************************************************************)
(* Direct calls of the utility functions                                   *)
(***************************************************************************)
NormalizePaginationParams ==
    /\ op = "idle"
    /\ \E params \in PaginationParams :
          util' = [fn |-> "normalizePaginationParams", params |-> params,
                   result |-> normalizePaginationParams(params)]
    /\ op' = "util"
    /\ UNCHANGED <<metricsVars, mapperVars, workerVars, reportVars, retryVars,
                   tool, pager, client, http>>

CreatePaginatedResponse ==
    /\ op = "idle"
    /\ \E rs \in PageRows, token \in PageTokens, total \in PageTotals :
          util' = [fn |-> "createPaginatedResponse", rows |-> rs,
                   nextPageToken |-> token, totalResults |-> total,
                   result |-> createPaginatedResponse(rs, token, total)]
    /\ op' = "util"
    /\ UNCHANGED <<metricsVars, mapperVars, workerVars, reportVars, retryVars,
                   tool, pager, client, http>>

ResolveDateRange ==
    /\ op = "idle"
    /\ \E dateRange \in DateRanges, today \in Todays, hours \in DayLengths :
          util' = [fn |-> "resolveDateRange", dateRange |-> dateRange,
                   today |-> today, hoursOfDayBefore |-> hours,
                   result |-> resolveDateRange(dateRange, today, hours)]
    /\ op' = "util"
    /\ UNCHANGED <<metricsVars, mapperVars, workerVars, reportVars, retryVars,
                   tool, pager, client, http>>

NextUtil ==
    \/ NormalizePaginationParams
    \/ CreatePaginatedResponse
    \/ ResolveDateRange
    \/ Return

SpecUtil == Init /\ [][NextUtil]_vars

(***************************************************************************)
(* A client that pages through a report                                    *)
(***************************************************************************)
\* The client sends its first request, without a cursor.
StartPaging ==
    /\ op = "idle"
    /\ \E pages \in PageCounts, foreign \in {"rejected", "ignored"} :
          LET response == getReportPage(pages, foreign, Undefined)
          IN pager' = [pages |-> pages, foreign |-> foreign, calls |-> 1,
                       received |-> response.rows,
                       cursor |-> response.next_cursor]
    /\ op' = "paging"
    /\ UNCHANGED <<metricsVars, mapperVars, workerVars, reportVars, retryVars,
                   util, tool, client, http>>

\* The client sends the next_cursor of the last response as cursor.
NextPage ==
    /\ op = "paging"
    /\ pager.cursor # Null
    /\ pager.calls < MaxCalls
    /\ LET response == getReportPage(pager.pages, pager.foreign,
                                     [cursor |-> pager.cursor])
       IN pager' = [pager EXCEPT !.calls = @ + 1,
                                 !.received = @ \o response.rows,
                                 !.cursor = response.next_cursor]
    /\ UNCHANGED <<op, metricsVars, mapperVars, workerVars, reportVars,
                   retryVars, util, tool, client, http>>

NextPager ==
    \/ StartPaging
    \/ NextPage
    \/ Return

SpecPager == Init /\ [][NextPager]_vars

(***************************************************************************)
(* The CallTool handler                                                    *)
(***************************************************************************)
\* A CallTool request is handled: the tool runs, or the name is unknown, and
\* the handler returns its response.
CallTool ==
    /\ op = "idle"
    /\ \E toolName \in ToolNames \cup OtherToolNames :
          \E outcome \in ToolOutcomes(toolName) :
              tool' = [name |-> toolName, outcome |-> outcome,
                       response |-> CallToolHandler(toolName, outcome)]
    /\ op' = "callTool"
    /\ UNCHANGED <<metricsVars, mapperVars, workerVars, reportVars, retryVars,
                   util, pager, client, http>>

NextTool ==
    \/ CallTool
    \/ Return

SpecTool == Init /\ [][NextTool]_vars

(***************************************************************************)
(* withRetry                                                               *)
(***************************************************************************)
\* withRetry(fn, options): the options are merged and fn is called for
\* attempt 0.
WithRetry ==
    /\ op = "idle"
    /\ \E options \in RetryOptionSets :
          retry' = [pc |-> "calling", options |-> options,
                    opts |-> MergeOptions(options), attempt |-> 0,
                    calls |-> 1, lastError |-> None, delayMs |-> None,
                    settled |-> None]
    /\ op' = "withRetry"
    /\ UNCHANGED <<metricsVars, mapperVars, workerVars, reportVars,
                   extraVars>>

\* fn resolves: withRetry returns its value.
FnResolves ==
    /\ op = "withRetry"
    /\ retry.pc = "calling"
    /\ retry' = [retry EXCEPT !.pc = "returned", !.settled = "value"]
    /\ UNCHANGED <<op, metricsVars, mapperVars, workerVars, reportVars,
                   extraVars>>

\* The catch block of withRetry, up to the sleep.
CatchBlock(r, error, randomTenths) ==
    IF ~isRetryableError(error)
    THEN [r EXCEPT !.pc = "thrown", !.lastError = error, !.settled = error]
    ELSE IF r.attempt >= r.opts.maxRetries
    THEN [r EXCEPT !.pc = "thrown", !.lastError = error, !.settled = error]
    ELSE [r EXCEPT !.pc = "sleeping",
                   !.lastError = error,
                   !.delayMs = calculateDelay(r.attempt, r.opts,
                                              retryAfterMs(error),
                                              randomTenths)]

\* fn rejects: the catch block rethrows the error or computes the delay and
\* starts to sleep.
FnRejects ==
    /\ op = "withRetry"
    /\ retry.pc = "calling"
    /\ \E error \in RetryErrors, randomTenths \in RandomTenths :
          retry' = CatchBlock(retry, error, randomTenths)
    /\ UNCHANGED <<op, metricsVars, mapperVars, workerVars, reportVars,
                   extraVars>>

\* The sleep ends: attempt++ and, while attempt <= maxRetries, fn is called
\* again; past the loop lastError is thrown.
SleepEnds ==
    /\ op = "withRetry"
    /\ retry.pc = "sleeping"
    /\ retry' =
          IF retry.attempt + 1 <= retry.opts.maxRetries
          THEN [retry EXCEPT !.pc = "calling", !.attempt = @ + 1,
                             !.calls = @ + 1]
          ELSE [retry EXCEPT !.pc = "thrown", !.attempt = @ + 1,
                             !.settled = retry.lastError]
    /\ UNCHANGED <<op, metricsVars, mapperVars, workerVars, reportVars,
                   extraVars>>

\* GoogleAdsClient.query: withRetry is called with the default options and
\* the library is called for attempt 0.
ClientQuery ==
    /\ op = "idle"
    /\ retry' = [pc |-> "calling", options |-> <<>>,
                 opts |-> MergeOptions(<<>>), attempt |-> 0, calls |-> 1,
                 lastError |-> None, delayMs |-> None, settled |-> None]
    /\ client' = [upstream |-> None, errors |-> 0]
    /\ op' = "withRetry"
    /\ UNCHANGED <<metricsVars, mapperVars, workerVars, reportVars, util, tool,
                   pager, http>>

\* The library call fails: fn throws normalizeError(error), which the catch
\* block of withRetry receives.
UpstreamRejects ==
    /\ op = "withRetry"
    /\ client # None
    /\ retry.pc = "calling"
    /\ \E error \in UpstreamErrors, randomTenths \in RandomTenths :
          /\ client' = [upstream |-> error, errors |-> client.errors + 1]
          /\ retry' = CatchBlock(retry, normalizeError(error), randomTenths)
    /\ UNCHANGED <<op, metricsVars, mapperVars, workerVars, reportVars, util,
                   tool, pager, http>>

NextClient ==
    \/ ClientQuery
    \/ FnResolves
    \/ UpstreamRejects
    \/ SleepEnds
    \/ Return

SpecClient == Init /\ [][NextClient]_vars

(***************************************************************************)
(* server.ts: the HTTP server and its registry of SSE transports            *)
(***************************************************************************)
MaxSessions == 2

MaxPending == 2

\* transport.sessionId, a fresh UUID for every transport.
randomUUID(n) == String(<<ToString(n)>>)

\* The sessionId of the query string: left out, empty, the id of a session
\* that exists or will exist, or an id no transport ever gets.
QuerySessionIds ==
    {Undefined, String(<<>>)} \cup {randomUUID(n) : n \in 1 .. MaxSessions + 1}

Posts ==
    [route : {"POST /mcp/sse", "POST /mcp/message"},
     sessionId : QuerySessionIds]

\* transports.set(transport.sessionId, transport)
TransportsSet(transports, sessionId) == transports \cup {sessionId}

\* transport.onclose of a transport the registry holds
onclose_Keep(transports, sessionId) == transports

onclose(transports, sessionId) == transports \ {sessionId}

\* new SSEServerTransport, transports.set, onclose, server.connect
NewSession(h) ==
    LET sessionId == randomUUID(h.created + 1)
    IN [h EXCEPT !.created = @ + 1,
                 !.transports = TransportsSet(@, sessionId),
                 !.open = @ \cup {sessionId}]

\* transport.handlePostMessage(req, res) of the handlers, with their catch:
\* a transport whose stream is gone refuses the message.
HandlePostMessage(h, sessionId) ==
    IF sessionId \in h.open THEN 202 ELSE 500

Answer(post, sessionId, status, handed) ==
    [route |-> post.route, sessionId |-> sessionId, status |-> status,
     handed |-> handed]

\* app.listen
Listen ==
    /\ op = "idle"
    /\ op' = "http"
    /\ http' = [transports |-> {}, open |-> {}, closed |-> {}, created |-> 0,
                pending |-> {}, last |-> None]
    /\ UNCHANGED <<metricsVars, mapperVars, workerVars, reportVars, retryVars,
                   util, tool, pager, client>>

\* app.get('/mcp/sse')
GetSse ==
    /\ op = "http"
    /\ http.created < MaxSessions
    /\ http' = [NewSession(http) EXCEPT
                   !.last = [route |-> "GET /mcp/sse",
                             sessionId |-> randomUUID(http.created + 1),
                             status |-> 200, handed |-> FALSE]]
    /\ UNCHANGED <<op, metricsVars, mapperVars, workerVars, reportVars,
                   retryVars, util, tool, pager, client>>

\* A client sends a POST; the server handles it later.
ClientPosts ==
    /\ op = "http"
    /\ Cardinality(http.pending) < MaxPending
    /\ \E post \in Posts \ http.pending :
          http' = [http EXCEPT !.pending = @ \cup {post}]
    /\ UNCHANGED <<op, metricsVars, mapperVars, workerVars, reportVars,
                   retryVars, util, tool, pager, client>>

\* app.post('/mcp/sse')
PostSse ==
    /\ op = "http"
    /\ \E post \in http.pending :
          /\ post.route = "POST /mcp/sse"
          /\ ~Truthy(post.sessionId) => http.created < MaxSessions
          /\ LET h == [http EXCEPT !.pending = @ \ {post}]
                 created == NewSession(h)
                 sessionId == randomUUID(http.created + 1)
             IN http' =
                 IF ~Truthy(post.sessionId)
                 THEN [created EXCEPT
                          !.last = Answer(post, sessionId,
                                          HandlePostMessage(created, sessionId),
                                          TRUE)]
                 ELSE IF post.sessionId \notin h.transports
                 THEN [h EXCEPT !.last = Answer(post, post.sessionId, 404,
                                                FALSE)]
                 ELSE [h EXCEPT
                          !.last = Answer(post, post.sessionId,
                                          HandlePostMessage(h, post.sessionId),
                                          TRUE)]
    /\ UNCHANGED <<op, metricsVars, mapperVars, workerVars, reportVars,
                   retryVars, util, tool, pager, client>>

\* app.post('/mcp/message')
PostMessage ==
    /\ op = "http"
    /\ \E post \in http.pending :
          /\ post.route = "POST /mcp/message"
          /\ LET h == [http EXCEPT !.pending = @ \ {post}]
             IN http' =
                 IF ~Truthy(post.sessionId)
                 THEN [h EXCEPT !.last = Answer(post, post.sessionId, 400,
                                                FALSE)]
                 ELSE IF post.sessionId \notin h.transports
                 THEN [h EXCEPT !.last = Answer(post, post.sessionId, 404,
                                                FALSE)]
                 ELSE [h EXCEPT
                          !.last = Answer(post, post.sessionId,
                                          HandlePostMessage(h, post.sessionId),
                                          TRUE)]
    /\ UNCHANGED <<op, metricsVars, mapperVars, workerVars, reportVars,
                   retryVars, util, tool, pager, client>>

\* The stream of a transport closes and the transport calls onclose.
TransportCloses ==
    /\ op = "http"
    /\ \E sessionId \in http.open :
          http' = [http EXCEPT
                      !.open = @ \ {sessionId},
                      !.closed = @ \cup {sessionId},
                      !.transports = onclose(@, sessionId),
                      !.last = [route |-> "close", sessionId |-> sessionId,
                                status |-> 0, handed |-> FALSE]]
    /\ UNCHANGED <<op, metricsVars, mapperVars, workerVars, reportVars,
                   retryVars, util, tool, pager, client>>

NextHttp ==
    \/ Listen
    \/ GetSse
    \/ ClientPosts
    \/ PostSse
    \/ PostMessage
    \/ TransportCloses
    \/ Return

SpecHttp == Init /\ [][NextHttp]_vars

NextRetry ==
    \/ WithRetry
    \/ FnResolves
    \/ FnRejects
    \/ SleepEnds
    \/ Return

SpecRetry == Init /\ [][NextRetry]_vars

\* Every call of fn comes to an end and every timer of sleep fires.
SpecRetryLive ==
    /\ SpecRetry
    /\ WF_vars(FnResolves \/ FnRejects)
    /\ WF_vars(SleepEnds)

(***************************************************************************)
(* Arithmetic used to state the properties, written apart from the         *)
(* operators the functions are computed with                               *)
(***************************************************************************)
\* a < b and a <= b for finite numbers, by cross-multiplication.
Less(a, b) == a.n * b.d < b.n * a.d

LessEq(a, b) == a.n * b.d <= b.n * a.d

\* a - b for finite numbers.
Minus(a, b) == Fin(a.n * b.d - b.n * a.d, a.d * b.d)

Half == Fin(1, 2)

IsInteger(x) == IsFinite(x) /\ x.d = 1

\* q is the quotient a / b of IEEE arithmetic, for b other than 0 and
\* neither operand NaN: q * b = a when both are finite, 0 when only b is
\* infinite, an infinity of the product's sign when only a is, else NaN.
IsQuotient(q, a, b) ==
    IF IsFinite(a) /\ IsFinite(b) THEN IsFinite(q) /\ NumMul(q, b) = a
    ELSE IF IsFinite(a) THEN q = Zero
    ELSE IF IsFinite(b) THEN q.k = "inf" /\ q.n = a.n * Sign(b.n)
    ELSE q.k = "nan"

\* r is a multiple of 10^-decimals at distance at most half a step from v;
\* a value that is not finite has no digits to round and is kept.
IsNearest(r, v, decimals) ==
    IF ~IsFinite(v) THEN r = v
    ELSE LET m == Int2Num(Pow10(decimals))
             e == Minus(NumMul(v, m), NumMul(r, m))
         IN /\ IsFinite(r)
            /\ IsInteger(NumMul(r, m))
            /\ LessEq(Fin(-1, 2), e)
            /\ LessEq(e, Half)

\* v lies exactly halfway between two neighbouring multiples of 10^-decimals.
IsHalfway(v, decimals) ==
    /\ IsFinite(v)
    /\ LET x == NumMul(v, Int2Num(Pow10(decimals))) IN x.d = 2

IsMetricsRecord(m) ==
    /\ DOMAIN m = MetricFields
    /\ \A f \in MetricFields :
          /\ DOMAIN m[f] = {"k", "n", "d"}
          /\ m[f].k \in {"fin", "inf", "nan"}

AllZero(m) == \A f \in MetricFields : m[f] = Zero

\* The state after normalizeMetrics or formatMetrics returned.
Normalized == op \in {"normalizeMetrics", "formatMetrics"}

(***************************************************************************)
(* C1.  Each of the five ratio functions returns 0 when its divisor        *)
(* argument is 0, whatever the numerator is, and in every record returned  *)
(* by normalizeMetrics a derived field is 0 whenever its divisor base      *)
(* field of the same record is 0.                                          *)
(***************************************************************************)
C1_ZeroGuard ==
    /\ op = "calculateRatio" /\ call.b = Zero => call.result = Zero
    /\ Normalized =>
          /\ normalized.impressions = Zero =>
                normalized.ctr = Zero /\ normalized.cpm = Zero
          /\ normalized.clicks = Zero => normalized.cpc = Zero
          /\ normalized.conversions = Zero => normalized.cpa = Zero
          /\ normalized.spend = Zero => normalized.roas = Zero

\* A record with zero impressions and zero spend but clicks and conversion
\* value: two guarded divisions with a non-zero numerator.
C1_Witness ==
    /\ op = "normalizeMetrics"
    /\ normalized.impressions = Zero /\ normalized.clicks # Zero
    /\ normalized.spend = Zero /\ normalized.conversion_value # Zero
    /\ normalized.ctr = Zero /\ normalized.roas = Zero

(***************************************************************************)
(* C2.  In the record returned by normalizeMetrics, ctr = clicks /         *)
(* impressions, cpc = spend / clicks, cpm = (spend * 1000) / impressions,  *)
(* cpa = spend / conversions and roas = conversion_value / spend whenever  *)
(* the divisor is not 0, over the unrounded base fields of the record.     *)
(***************************************************************************)
C2_Formulas ==
    Normalized =>
        LET m == normalized IN
        /\ m.impressions # Zero =>
              /\ IsQuotient(m.ctr, m.clicks, m.impressions)
              /\ IsQuotient(m.cpm, NumMul(m.spend, Int2Num(1000)), m.impressions)
        /\ m.clicks # Zero => IsQuotient(m.cpc, m.spend, m.clicks)
        /\ m.conversions # Zero => IsQuotient(m.cpa, m.spend, m.conversions)
        /\ m.spend # Zero => IsQuotient(m.roas, m.conversion_value, m.spend)

\* All five divisions take place, on finite operands, none with result 0.
C2_Witness ==
    /\ op = "normalizeMetrics"
    /\ \A f \in MetricFields : IsFinite(normalized[f]) /\ normalized[f] # Zero
    /\ normalized.cpm # normalized.cpa

(***************************************************************************)
(* C3.  normalizeMetrics sets spend = cost_micros / 1,000,000 and          *)
(* conversion_value = conversions_value / 1,000,000, a string being read   *)
(* as a base-10 integer first and a negative amount converted like any     *)
(* other; impressions, clicks and conversions keep their numeric value,    *)
(* fractions included, a string being read as a real number.               *)
(***************************************************************************)
\* The strings of the inputs that are decimal numerals, with the integer and
\* the real number each of them is read as.
NumeralStrings == {STR_DECIMAL, STR_MICROS}

IntegerRead(s) == IF s = STR_DECIMAL THEN Int2Num(1) ELSE Int2Num(5500000)

RealRead(s) == IF s = STR_DECIMAL THEN Fin(3, 2) ELSE Int2Num(5500000)

BaseField(f) ==
    CASE f = "cost_micros" -> "spend"
      [] f = "conversions_value" -> "conversion_value"
      [] OTHER -> f

Million == Int2Num(1000 * 1000)

C3_BaseFields ==
    Normalized =>
        \A f \in DOMAIN raw :
            LET v == raw[f]
                out == normalized[BaseField(f)]
            IN /\ v.t = "number" /\ f \in MicrosFields =>
                      NumMul(out, Million) = v.num
               /\ v.t = "string" /\ v.str \in NumeralStrings /\ f \in MicrosFields =>
                      NumMul(out, Million) = IntegerRead(v.str)
               /\ v.t = "number" /\ f \in CountFields => out = v.num
               /\ v.t = "string" /\ v.str \in NumeralStrings /\ f \in CountFields =>
                      out = RealRead(v.str)

\* A negative amount, a money string with a fraction, a count string with a
\* fraction and a fractional count, all in one record.
C3_Witness ==
    /\ op = "normalizeMetrics"
    /\ Less(normalized.spend, Zero)
    /\ "conversions_value" \in DOMAIN raw
    /\ raw["conversions_value"] = String(STR_DECIMAL)
    /\ normalized.conversion_value = Fin(1, 1000000)
    /\ "impressions" \in DOMAIN raw
    /\ raw["impressions"] = String(STR_DECIMAL)
    /\ normalized.impressions = Fin(3, 2)
    /\ normalized.clicks = Fin(1, 4)

(***************************************************************************)
(* C4.  normalizeMetrics returns a complete ten-field record for every     *)
(* combination of field variants, and when every raw field is absent or a  *)
(* string that does not begin with a number, all ten fields are 0.         *)
(***************************************************************************)
\* s is a decimal numeral: digits with at most one point and an optional
\* leading minus sign.
IsNumericString(s) ==
    /\ \E i \in 1 .. Len(s) : s[i] \in Digits
    /\ \A i \in 1 .. Len(s) :
          \/ s[i] \in Digits
          \/ s[i] = "-" /\ i = 1
          \/ s[i] = "." /\ \A j \in 1 .. Len(s) : s[j] = "." => j = i

\* The parser of the field reads a number at the start of s: after white
\* space and a sign there is a digit or, for a count field, a point before a
\* digit or the word Infinity.
BeginsWithNumber(field, s) ==
    LET t == SkipWhiteSpace(s)
        r == IF HasSign(t) THEN Tail(t) ELSE t
    IN /\ Len(r) > 0
       /\ \/ Head(r) \in Digits
          \/ /\ field \in CountFields
             /\ \/ Head(r) = "." /\ Len(r) > 1 /\ r[2] \in Digits
                \/ StartsWith(r, InfinityLiteral)

WithZero(r, f) ==
    [g \in DOMAIN r \cup {f} |-> IF g = f THEN Number(Zero) ELSE r[g]]

IsMissing(r, f) == f \notin DOMAIN r \/ r[f].t \in {"null", "undefined"}

C6_AllFinite ==
    op = "normalizeMetrics" => \A f \in MetricFields : IsFinite(normalized[f])

(***************************************************************************)
(* C7.  roundMetric(value, decimals) returns the multiple of 10^-decimals  *)
(* nearest to value, decimals being 2 when left out, and a value exactly   *)
(* halfway between two multiples is rounded up, toward +Infinity.          *)
(***************************************************************************)
Rounded == op \in {"roundMetric", "roundMetricDefault"}

DecimalsOfCall == IF op = "roundMetricDefault" THEN 2 ELSE call.decimals

TwoDecimalFields ==
    {"spend", "conversions", "conversion_value", "cpc", "cpm", "cpa", "roas"}

C8_DisplayPrecision ==
    op = "formatMetrics" =>
        /\ IsMetricsRecord(formatted)
        /\ \A f \in TwoDecimalFields : IsNearest(formatted[f], normalized[f], 2)
        /\ IsNearest(formatted.ctr, normalized.ctr, 4)
        /\ IsNearest(formatted.impressions, normalized.impressions, 0)
        /\ IsNearest(formatted.clicks, normalized.clicks, 0)
        /\ normalized = normalizeMetrics(raw)

\* A click-through rate that keeps its third and fourth decimal, next to a
\* spend and an impression count that rounding changes.
C8_Witness ==
    /\ op = "formatMetrics"
    /\ normalized.ctr = Fin(1, 3)
    /\ formatted.ctr = Fin(3333, 10000)
    /\ formatted.spend # normalized.spend
    /\ formatted.impressions # normalized.impressions

(***************************************************************************)
(* C9.  mapToStandardizedRow returns a complete row, and throws nothing,   *)
(* for every row in which any of customer, campaign, ad_group_ad,          *)
(* ad_group_ad.ad, segments and metrics, or any of their leaf fields, is   *)
(* missing; when metrics is missing, the ten metric fields are all 0.      *)
(***************************************************************************)
IdentityFields ==
    {"platform", "account_id", "account_name", "date", "campaign_id",
     "campaign_name", "adset_id", "adset_name", "ad_id", "ad_name",
     "currency", "attribution_model", "attribution_window"}

IsStandardizedRow(m) ==
    /\ DOMAIN m = IdentityFields \cup MetricFields
    /\ \A f \in IdentityFields : m[f].t \in {"string", "null"}
    /\ \A f \in MetricFields : m[f].k \in {"fin", "inf", "nan"}

\* The value found in the row by following path, undefined as soon as a
\* step of the path is not there.
RECURSIVE Source(_, _)
Source(v, path) ==
    IF Len(path) = 0 THEN v
    ELSE IF v.t = "object" /\ Head(path) \in DOMAIN v.props
         THEN Source(v.props[Head(path)], Tail(path))
         ELSE Undefined

SourceMissing(path) == Source(Object(row), path).t \in {"undefined", "null"}

Mapped == op = "mapToStandardizedRow"

C9_NullSafe ==
    Mapped =>
        /\ IsStandardizedRow(mapped)
        /\ SourceMissing(<<"metrics">>) =>
              \A f \in MetricFields : mapped[f] = Zero

\* A row with a customer that has no id, an ad_group_ad that has no ad, a
\* null campaign and null metrics.
C9_Witness ==
    /\ Mapped
    /\ DOMAIN row = {"customer", "campaign", "ad_group_ad", "segments", "metrics"}
    /\ row["campaign"] = Null
    /\ row["metrics"] = Null
    /\ row["customer"].t = "object" /\ row["customer"].props["id"] = Null
    /\ row["customer"].props["descriptive_name"] = String(NAME_CUSTOMER)
    /\ row["ad_group_ad"].t = "object" /\ row["ad_group_ad"].props["ad"] = Null
    /\ mapped.account_name = String(NAME_CUSTOMER)
    /\ \A f \in MetricFields : mapped[f] = Zero

(***************************************************************************)
(* C10.  In the row mapToStandardizedRow returns, account_id and           *)
(* account_name are the empty string when their source field is missing,   *)
(* and campaign_id, campaign_name, ad_id, ad_name and date are null when    *)
(* theirs is.                                                              *)
(***************************************************************************)
C10_Defaults ==
    Mapped =>
        /\ SourceMissing(<<"customer", "id">>) => mapped.account_id = EmptyString
        /\ SourceMissing(<<"customer", "descriptive_name">>) =>
              mapped.account_name = EmptyString
        /\ SourceMissing(<<"campaign", "id">>) => mapped.campaign_id = Null
        /\ SourceMissing(<<"campaign", "name">>) => mapped.campaign_name = Null
        /\ SourceMissing(<<"ad_group_ad", "ad", "id">>) => mapped.ad_id = Null
        /\ SourceMissing(<<"ad_group_ad", "ad", "name">>) => mapped.ad_name = Null
        /\ SourceMissing(<<"segments", "date">>) => mapped.date = Null

\* The claim as it was made: every missing identifier is the empty string
\* and every missing name or date is null.
C10_Original ==
    Mapped =>
        /\ SourceMissing(<<"customer", "id">>) => mapped.account_id = EmptyString
        /\ SourceMissing(<<"campaign", "id">>) => mapped.campaign_id = EmptyString
        /\ SourceMissing(<<"ad_group_ad", "ad", "id">>) =>
              mapped.ad_id = EmptyString
        /\ SourceMissing(<<"customer", "descriptive_name">>) =>
              mapped.account_name = Null
        /\ SourceMissing(<<"campaign", "name">>) => mapped.campaign_name = Null
        /\ SourceMissing(<<"ad_group_ad", "ad", "name">>) => mapped.ad_name = Null
        /\ SourceMissing(<<"segments", "date">>) => mapped.date = Null

\* A row whose customer has neither id nor name, whose campaign and segments
\* are not there and whose ad has null leaves.
C10_Witness ==
    /\ Mapped
    /\ DOMAIN row = {"customer", "campaign", "ad_group_ad", "segments", "metrics"}
    /\ row["customer"].t = "object"
    /\ row["customer"].props["id"] = Null
    /\ row["customer"].props["descriptive_name"] = Null
    /\ row["campaign"] = Null
    /\ row["segments"] = Null
    /\ row["ad_group_ad"].t = "object" /\ row["ad_group_ad"].props["ad"].t = "object"
    /\ row["ad_group_ad"].props["ad"].props["id"] = Null
    /\ mapped.account_id = EmptyString /\ mapped.account_name = EmptyString
    /\ mapped.campaign_id = Null /\ mapped.ad_id = Null /\ mapped.date = Null

(***************************************************************************)
(* C11.  The ten metric fields of the row mapToStandardizedRow returns are *)
(* formatMetrics(normalizeMetrics(m)), m being row.metrics or {} when      *)
(* metrics is missing: the ratios come from the unrounded base values and  *)
(* are rounded afterwards.                                                 *)
(***************************************************************************)
\* The metrics object of a raw row, {} when the row has none.
MetricsOf(r) ==
    LET m == Source(Object(r), <<"metrics">>)
    IN IF m.t = "object" THEN m.props ELSE <<>>

C11_Delegates ==
    Mapped =>
        LET composed == formatMetrics(normalizeMetrics(MetricsOf(row)))
        IN \A f \in MetricFields : mapped[f] = composed[f]

\* Impressions 0.25 and clicks 0.5 are displayed as 0 and 1, while the ctr
\* shown is that of the unrounded values, 2, and not 0.
C11_Witness ==
    /\ Mapped
    /\ "impressions" \in DOMAIN MetricsOf(row)
    /\ MetricsOf(row)["impressions"] = Number(Fin(1, 4))
    /\ mapped.impressions = Zero
    /\ mapped.clicks = Int2Num(1)
    /\ mapped.ctr = Int2Num(2)

(***************************************************************************)
(* C12.  The currency of a mapped row is the row's own currency_code when  *)
(* the row declares one, and otherwise the caller's default, which is USD  *)
(* when none is passed, through mapRowsToStandardized as well.             *)
(***************************************************************************)
\* The currency a raw row declares: a non-empty customer.currency_code.
DeclaredCurrency(r) == Source(Object(r), <<"customer", "currency_code">>)

Declares(r) ==
    DeclaredCurrency(r).t = "string" /\ Len(DeclaredCurrency(r).str) > 0

ExpectedCurrency(r) ==
    IF Declares(r) THEN DeclaredCurrency(r)
    ELSE IF defaultCurrency = Undefined THEN String(<<"U", "S", "D">>)
    ELSE defaultCurrency

MappedRows == op = "mapRowsToStandardized"

C12_Currency ==
    /\ Mapped => mapped.currency = ExpectedCurrency(row)
    /\ MappedRows =>
          \A i \in 1 .. Len(rows) :
              mappedRows[i].currency = ExpectedCurrency(rows[i])

\* An array mapped with no default: its first row declares GBP, its second
\* declares nothing and gets USD.
C12_Witness ==
    /\ MappedRows
    /\ defaultCurrency = Undefined
    /\ Len(rows) = 2
    /\ Declares(rows[1]) /\ ~Declares(rows[2])
    /\ mappedRows[1].currency = String(GBP)
    /\ mappedRows[2].currency = String(USD)

(***************************************************************************)
(* C13.  Whatever the input row holds, the mapped row has platform         *)
(* google_ads and null adset_id, adset_name, attribution_model and         *)
(* attribution_window.                                                     *)
(***************************************************************************)
C13_FixedFields ==
    Mapped =>
        /\ mapped.platform =
               String(<<"g", "o", "o", "g", "l", "e", "_", "a", "d", "s">>)
        /\ mapped.adset_id = Null
        /\ mapped.adset_name = Null
        /\ mapped.attribution_model = Null
        /\ mapped.attribution_window = Null

\* A complete row, campaign and ad included, still has a null adset pair.
C13_Witness ==
    /\ Mapped
    /\ mapped.campaign_id = String(ID_CAMPAIGN)
    /\ mapped.ad_id = String(ID_AD)
    /\ mapped.date = String(DATE)
    /\ mapped.adset_id = Null
    /\ mapped.attribution_model = Null

(***************************************************************************)
(* C14.  mapRowsToStandardized(rows, c) returns an array as long as rows   *)
(* whose i-th element is mapToStandardizedRow(rows[i], c): it depends on   *)
(* rows[i] and c alone.                                                    *)
(***************************************************************************)
C14_Pointwise ==
    MappedRows =>
        /\ DOMAIN mappedRows = DOMAIN rows
        /\ \A i \in DOMAIN rows :
              mappedRows[i] = mapToStandardizedRow(rows[i], defaultCurrency)
        /\ \A i, j \in DOMAIN rows :
              rows[i] = rows[j] => mappedRows[i] = mappedRows[j]

\* Two different rows, mapped to two different rows in the same order.
C14_Witness ==
    /\ MappedRows
    /\ Len(rows) = 2
    /\ rows[1] # rows[2]
    /\ mappedRows[1] # mappedRows[2]
    /\ mappedRows[1].campaign_id = String(ID_CAMPAIGN)
    /\ mappedRows[2].campaign_id = Null

(***************************************************************************)
(* C15.  When the rows of an array are mapped by several workers in any    *)
(* interleaving, every result put in the output is the one the sequential  *)
(* mapToStandardizedRow gives for the row at that index, so the complete    *)
(* output is the sequential output; a step of one worker leaves the        *)
(* constants of every other worker's call and the input rows as they were. *)
(***************************************************************************)
Working == op = "workers"

AllMapped == \A i \in DOMAIN rows : output[i] # None

C15_Results ==
    Working =>
        /\ \A i \in DOMAIN rows :
              output[i] # None =>
                  output[i] = mapToStandardizedRow(rows[i], Undefined)
        /\ AllMapped => output = mapRowsToStandardized(rows, Undefined)

C15_Isolation ==
    (Working /\ op' = "workers") =>
        /\ rows' = rows
        /\ \A v \in Workers :
              workerPc'[v] = workerPc[v] =>
                  /\ locals'[v] = locals[v]
                  /\ workerIndex'[v] = workerIndex[v]

C15_Parallel == [](C15_Results) /\ [][C15_Isolation]_vars

\* Three rows, the last mapped first; the two workers are in the middle of
\* the calls for the second and the first row.
C15_Witness ==
    /\ Working
    /\ Len(rows) = 3
    /\ rows[1] # rows[2]
    /\ output[3] # None /\ output[1] = None /\ output[2] = None
    /\ workerPc[1] = "return" /\ workerIndex[1] = 2
    /\ workerPc[2] = "format" /\ workerIndex[2] = 1

(***************************************************************************)
(* C16.  The AD field list holds every field of the CAMPAIGN list, which   *)
(* holds every field of the ACCOUNT list; the three customer fields and    *)
(* the five metrics fields are in all three; campaign.id and campaign.name *)
(* are in the CAMPAIGN and AD lists only, ad_group_ad.ad.id and            *)
(* ad_group_ad.ad.name in the AD list only.                                *)
(***************************************************************************)
Range(seq) == {seq[k] : k \in DOMAIN seq}

FieldsCalled == op = "buildGAQL" /\ gaql.fn = "buildGAQLFields"

CustomerFieldNames ==
    {"customer.id", "customer.descriptive_name", "customer.currency_code"}

MetricFieldNames ==
    {"metrics.cost_micros", "metrics.impressions", "metrics.clicks",
     "metrics.conversions", "metrics.conversions_value"}

CampaignFieldNames == {"campaign.id", "campaign.name"}

AdFieldNames == {"ad_group_ad.ad.id", "ad_group_ad.ad.name"}

C16_Monotone ==
    FieldsCalled =>
        LET got == Range(gaql.result)
        IN /\ gaql.level = "ACCOUNT" =>
                  got = CustomerFieldNames \cup MetricFieldNames
           /\ gaql.level = "CAMPAIGN" =>
                  got = CustomerFieldNames \cup MetricFieldNames
                            \cup CampaignFieldNames
           /\ gaql.level = "AD" =>
                  got = CustomerFieldNames \cup MetricFieldNames
                            \cup CampaignFieldNames \cup AdFieldNames
           /\ gaql.level \in {"CAMPAIGN", "AD"} =>
                  Range(buildGAQLFields("ACCOUNT")) \subseteq got
           /\ gaql.level = "AD" =>
                  Range(buildGAQLFields("CAMPAIGN")) \subseteq got

C16_Witness ==
    /\ FieldsCalled
    /\ gaql.level = "CAMPAIGN"
    /\ Len(gaql.result) = 10
    /\ "campaign.name" \in Range(gaql.result)
    /\ "ad_group_ad.ad.id" \notin Range(gaql.result)

(***************************************************************************)
(* C17.  buildGAQLResource gives customer for ACCOUNT, campaign for        *)
(* CAMPAIGN, ad_group_ad for AD, and customer for any other level, with no *)
(* error.                                                                  *)
(***************************************************************************)
ResourceCalled == op = "buildGAQL" /\ gaql.fn = "buildGAQLResource"

C17_Resource ==
    ResourceCalled =>
        gaql.result = IF gaql.level = "CAMPAIGN" THEN "campaign"
                      ELSE IF gaql.level = "AD" THEN "ad_group_ad"
                      ELSE "customer"

C17_Witness ==
    /\ ResourceCalled
    /\ gaql.level = "AD_GROUP"
    /\ gaql.result = "customer"

(***************************************************************************)
(* C18.  The report query selects segments.date if and only if date is     *)
(* listed in the breakdowns of the request, so that the rows of a request  *)
(* with no breakdowns have a null date.                                    *)
(***************************************************************************)
DateRequested ==
    "breakdowns" \in DOMAIN request /\ "date" \in Range(request.breakdowns)

Queried == op \in {"getReport", "getReportDone"} /\ query # None

C18_DateOnRequest ==
    /\ Queried => ("segments.date" \in Range(query.select) <=> DateRequested)
    /\ op = "getReportDone" =>
          \A k \in DOMAIN report.allRows :
              report.allRows[k].date # Null <=> DateRequested

(***************************************************************************)
(* C19.  With the default options withRetry calls fn at most four times;   *)
(* it calls fn again only after a transient error (code ECONNRESET or      *)
(* ETIMEDOUT, status 429, status 500 to 599, a GoogleAdsError whose        *)
(* message has RATE_EXCEEDED) and after the sleep; any other error is      *)
(* rethrown at once, with no wait; the error of the fourth call is         *)
(* rethrown; the first success is returned and fn is not called again.     *)
(***************************************************************************)
Transient(e) ==
    \/ "code" \in DOMAIN e /\ e.code \in {"ECONNRESET", "ETIMEDOUT"}
    \/ "statusCode" \in DOMAIN e /\ e.statusCode \in {429} \cup (500 .. 599)
    \/ /\ {"name", "message"} \subseteq DOMAIN e
       /\ e.name = "GoogleAdsError"
       /\ "RATE_EXCEEDED" \in Range(e.message)

Retrying == op = "withRetry"

DefaultRetry == Retrying /\ DOMAIN retry.options = {}

C19_Bounded ==
    DefaultRetry =>
        /\ retry.calls <= 4
        /\ retry.pc = "sleeping" =>
               Transient(retry.lastError) /\ retry.calls < 4
        /\ retry.pc = "thrown" =>
               /\ retry.settled = retry.lastError
               /\ ~Transient(retry.lastError) \/ retry.calls = 4
        /\ retry.pc = "returned" => retry.settled = "value"

C19_Step ==
    (DefaultRetry /\ op' = "withRetry") =>
        /\ retry'.calls # retry.calls =>
               /\ retry.pc = "sleeping"
               /\ retry'.calls = retry.calls + 1
        /\ retry'.pc = "thrown" =>
               /\ retry.pc = "calling"
               /\ retry'.delayMs = retry.delayMs
        /\ retry.pc \notin {"returned", "thrown"}

C19_Retry == [](C19_Bounded) /\ [][C19_Step]_vars

C19_Witness ==
    /\ DefaultRetry
    /\ retry.pc = "thrown"
    /\ retry.calls = 4
    /\ retry.lastError = [statusCode |-> 599]

(***************************************************************************)
(* C20.  When the error has retryAfterSeconds = s, withRetry sleeps at     *)
(* least s seconds before it calls fn again; so it does for the 60 seconds *)
(* of the rate-limit error of GoogleAdsClient.                             *)
(***************************************************************************)
C20_WaitsRetryAfter ==
    (Retrying /\ retry.pc = "sleeping"
        /\ "retryAfterSeconds" \in DOMAIN retry.lastError) =>
            retry.delayMs >= retry.lastError.retryAfterSeconds * 1000

(***************************************************************************)
(* C21.  normalizePaginationParams gives limit 500 when no limit is given, *)
(* the given limit when it is between 1 and 10000, never a limit above     *)
(* 10000, and a page_token exactly when a non-empty cursor is given, then  *)
(* equal to that cursor.                                                   *)
(***************************************************************************)
Normalizing == op = "util" /\ util.fn = "normalizePaginationParams"

GivenLimit == util.params # Undefined /\ "limit" \in DOMAIN util.params

GivenCursor ==
    /\ util.params # Undefined
    /\ "cursor" \in DOMAIN util.params
    /\ util.params.cursor.t = "string"
    /\ util.params.cursor.str # <<>>

C21_Limit ==
    Normalizing =>
        /\ ~GivenLimit => util.result.limit = 500
        /\ (GivenLimit /\ util.params.limit \in 1 .. 10000) =>
               util.result.limit = util.params.limit
        /\ util.result.limit <= 10000
        /\ "page_token" \in DOMAIN util.result <=> GivenCursor
        /\ GivenCursor => util.result.page_token = util.params.cursor

C21_Witness ==
    /\ Normalizing
    /\ GivenLimit
    /\ util.params.limit = 20000
    /\ util.result.limit = 10000
    /\ GivenCursor

(***************************************************************************)
(* C22.  createPaginatedResponse gives next_cursor equal to the next page  *)
(* token when one is given and null when the token is absent, null or      *)
(* empty; the rows are the given rows in the given order; total_results is *)
(* present exactly when it was supplied.                                   *)
(***************************************************************************)
Responding == op = "util" /\ util.fn = "createPaginatedResponse"

GivenToken == util.nextPageToken.t = "string" /\ util.nextPageToken.str # <<>>

C22_Response ==
    Responding =>
        /\ util.result.next_cursor =
               IF GivenToken THEN util.nextPageToken ELSE Null
        /\ util.result.rows = util.rows
        /\ "total_results" \in DOMAIN util.result
               <=> util.totalResults # Undefined
        /\ util.totalResults # Undefined =>
               util.result.total_results = util.totalResults

C22_Witness ==
    /\ Responding
    /\ util.nextPageToken = EmptyString
    /\ util.result.next_cursor = Null
    /\ util.totalResults = Number(Int2Num(0))
    /\ Len(util.rows) = 2

(***************************************************************************)
(* C23.  Every tool call gets a response: a ZodError gives isError with    *)
(* type VALIDATION, an unknown tool name isError with type UNKNOWN, any    *)
(* other failure isError with the type of the failure's error response     *)
(* or, when it has none, UNKNOWN; the type is one of the six error types;  *)
(* a successful call has no isError.                                       *)
(***************************************************************************)
ErrorTypes ==
    {"AUTH", "VALIDATION", "RATE_LIMIT", "NOT_FOUND", "UPSTREAM", "UNKNOWN"}

ToolCalled == op = "callTool"

Failed == "thrown" \in DOMAIN tool.outcome

IsErrorResponse(r, type) ==
    /\ DOMAIN r = {"content", "isError"}
    /\ r.isError = TRUE
    /\ r.content.error.type = String(<<type>>)

C23_AlwaysResponds ==
    ToolCalled =>
        /\ "content" \in DOMAIN tool.response
        /\ tool.name \notin ToolNames => IsErrorResponse(tool.response, "UNKNOWN")
        /\ (tool.name \in ToolNames /\ ~Failed) =>
               /\ DOMAIN tool.response = {"content"}
               /\ tool.response.content = tool.outcome.result
        /\ (tool.name \in ToolNames /\ Failed) =>
               LET e == tool.outcome.thrown
               IN IF e.name = String(<<"ZodError">>)
                  THEN IsErrorResponse(tool.response, "VALIDATION")
                  ELSE IF "errorResponse" \in DOMAIN e
                  THEN /\ DOMAIN tool.response = {"content", "isError"}
                       /\ tool.response.isError = TRUE
                       /\ \A f \in DOMAIN e.errorResponse.error :
                              tool.response.content.error[f] =
                                  e.errorResponse.error[f]
                  ELSE IsErrorResponse(tool.response, "UNKNOWN")
        /\ "isError" \in DOMAIN tool.response =>
               \E t \in ErrorTypes :
                   tool.response.content.error.type = String(<<t>>)

C23_Witness ==
    /\ ToolCalled
    /\ tool.name = "get_report"
    /\ Failed
    /\ "originalError" \in DOMAIN tool.outcome.thrown
    /\ IsErrorResponse(tool.response, "RATE_LIMIT")
    /\ "details" \in DOMAIN tool.response.content.error

(***************************************************************************)
(* C24.  In a mapped row a derived ratio is 0 whenever its divisor, as     *)
(* normalizeMetrics computed it before rounding, is 0: ctr and cpm for     *)
(* impressions, cpc for clicks, cpa for conversions, roas for spend.       *)
(* C24_Original states it for the divisor stored in the row, which is 0    *)
(* also when only display rounding made it so.                             *)
(***************************************************************************)
DivisorOf ==
    [ctr |-> "impressions", cpm |-> "impressions", cpc |-> "clicks",
     cpa |-> "conversions", roas |-> "spend"]

C24_ZeroDivisor ==
    Mapped =>
        LET unrounded == normalizeMetrics(MetricsOf(row))
        IN \A ratio \in DOMAIN DivisorOf :
               unrounded[DivisorOf[ratio]] = Zero => mapped[ratio] = Zero

C24_Original ==
    Mapped =>
        \A ratio \in DOMAIN DivisorOf :
            mapped[DivisorOf[ratio]] = Zero => mapped[ratio] = Zero

\* Clicks without impressions: the click count is kept and ctr is 0.
C24_Witness ==
    /\ Mapped
    /\ normalizeMetrics(MetricsOf(row)).impressions = Zero
    /\ mapped.clicks # Zero
    /\ mapped.ctr = Zero
    /\ mapped.cpc = Zero

(***************************************************************************)
(* C27.  A failed account query does not fail getReport: every account is  *)
(* queried, a failed account adds no rows, and the rows of the response    *)
(* are those of the other accounts, in the order of the accounts and in    *)
(* upstream order within an account.                                       *)
(***************************************************************************)
RECURSIVE RowsOfAnswers(_)
RowsOfAnswers(answers) ==
    IF answers = <<>> THEN <<>>
    ELSE LET k == Len(answers)
             last == IF answers[k].ok
                     THEN mapRowsToStandardized(answers[k].results, Undefined)
                     ELSE <<>>
         IN RowsOfAnswers(SubSeq(answers, 1, k - 1)) \o last

C27_FailureIsolated ==
    /\ op \in {"getReport", "getReportDone"} =>
           /\ report.allRows = RowsOfAnswers(report.answers)
           /\ Len(report.answers) = report.next - 1
           /\ report.failed = {k \in DOMAIN report.answers : ~report.answers[k].ok}
           /\ report.next <= request.accounts + 1
    /\ op = "getReportDone" => Len(report.answers) = request.accounts

\* The first of two accounts fails and the second answers two rows.
C27_Witness ==
    /\ op = "getReportDone"
    /\ request.accounts = 2
    /\ report.failed = {1}
    /\ Len(report.allRows) = 2
    /\ report.allRows[1] # report.allRows[2]

(***************************************************************************)
(* C25.  When the client has followed next_cursor until it was null, it    *)
(* has received every upstream row of every account exactly once.          *)
(***************************************************************************)
UpstreamRows(pages) ==
    {<<a, p>> : a \in DOMAIN pages, p \in 1 .. MaxPages} \cap
        {x \in (DOMAIN pages) \X (1 .. MaxPages) : x[2] <= pages[x[1]]}

Count(seq, x) == Cardinality({k \in DOMAIN seq : seq[k] = x})

C25_ExactlyOnce ==
    (op = "paging" /\ pager.cursor = Null) =>
        /\ \A x \in UpstreamRows(pager.pages) : Count(pager.received, x) = 1
        /\ Range(pager.received) \subseteq UpstreamRows(pager.pages)

(***************************************************************************)
(* C26.  For every preset and every current date resolveDateRange gives a  *)
(* range with start_date <= end_date whose end_date is yesterday; two      *)
(* explicit dates are returned as they are, whatever the preset.           *)
(***************************************************************************)
Resolving == op = "util" /\ util.fn = "resolveDateRange"

Explicit == {"start_date", "end_date"} \subseteq DOMAIN util.dateRange

\* a <= b for two strings of digits and dashes of the same length.
RECURSIVE StringLessEq(_, _)
StringLessEq(a, b) ==
    IF a = <<>> THEN TRUE
    ELSE IF Head(a) = Head(b) THEN StringLessEq(Tail(a), Tail(b))
    ELSE DigitVal(Head(a)) < DigitVal(Head(b))

DateText(day) ==
    NatToString(day.y) \o <<"-">>
        \o (IF day.m < 10 THEN <<"0">> ELSE <<>>) \o NatToString(day.m)
        \o <<"-">>
        \o (IF day.d < 10 THEN <<"0">> ELSE <<>>) \o NatToString(day.d)

C26_Range ==
    Resolving =>
        /\ Explicit =>
               /\ util.result.start_date = util.dateRange.start_date
               /\ util.result.end_date = util.dateRange.end_date
        /\ ~Explicit =>
               /\ StringLessEq(util.result.start_date.str,
                               util.result.end_date.str)
               /\ util.result.end_date.str = DateText(PrevDay(util.today))

(***************************************************************************)
(* C28.  GoogleAdsClient.query calls the upstream once when the failure is *)
(* classified as authentication, not found or validation (status 401, 404, *)
(* 400) and up to four times when it is a rate limit (429) or a generic    *)
(* upstream error with the default status 500; the classes are tested in   *)
(* the order authentication, rate limit, not found, validation; the error  *)
(* thrown carries the error response of its class.                         *)
(***************************************************************************)
HasWord(e, words) ==
    "message" \in DOMAIN e /\ Range(e.message) \cap words # {}

ClassOf(e) ==
    IF HasWord(e, {"authentication", "unauthorized"}) THEN "AUTH"
    ELSE IF HasWord(e, {"RATE_EXCEEDED", "RESOURCE_EXHAUSTED"}) THEN "RATE_LIMIT"
    ELSE IF HasWord(e, {"NOT_FOUND", "does not exist"}) THEN "NOT_FOUND"
    ELSE IF HasWord(e, {"INVALID", "validation"}) THEN "VALIDATION"
    ELSE "UPSTREAM"

StatusOf ==
    [AUTH |-> 401, RATE_LIMIT |-> 429, NOT_FOUND |-> 404, VALIDATION |-> 400]

Querying == op = "withRetry" /\ client # None

\* The last upstream call failed.
Failing == Querying /\ retry.pc \in {"sleeping", "thrown"}

C28_Classified ==
    /\ Querying =>
           /\ retry.calls <= 4
           /\ client.errors \in {retry.calls - 1, retry.calls}
    /\ Failing =>
           LET class == ClassOf(client.upstream)
           IN /\ retry.lastError.errorResponse.error.type = String(<<class>>)
              /\ class # "UPSTREAM" =>
                     retry.lastError.statusCode = StatusOf[class]
              /\ (class = "UPSTREAM" /\ "statusCode" \notin DOMAIN client.upstream)
                     => retry.lastError.statusCode = 500
              /\ class \in {"AUTH", "NOT_FOUND", "VALIDATION"} =>
                     retry.pc = "thrown"
              /\ (class = "RATE_LIMIT" \/ retry.lastError.statusCode = 500) =>
                     (retry.pc = "thrown" <=> client.errors = 4)
              /\ retry.pc = "thrown" => retry.settled = retry.lastError

C28_Step ==
    (Querying /\ op' = "withRetry" /\ retry'.calls # retry.calls) =>
        /\ retry.pc = "sleeping"
        /\ retry'.calls = retry.calls + 1
        /\ ClassOf(client.upstream) \in {"RATE_LIMIT", "UPSTREAM"}

C28_Query == [](C28_Classified) /\ [][C28_Step]_vars

\* The first call fails with an authentication error that also names a rate
\* limit: it is thrown as AUTH after one call.
C28_Witness ==
    /\ Failing
    /\ client.upstream.message = <<"unauthorized", "RATE_EXCEEDED">>
    /\ retry.calls = 1
    /\ retry.pc = "thrown"
    /\ retry.settled.statusCode = 401

(***************************************************************************)
(* C29.  withRetry comes to an end when every call of fn does: it returns  *)
(* or throws after at most maxRetries + 1 calls.  Every wait is at most    *)
(* maxDelayMs; without a Retry-After the wait before retry k is at least   *)
(* min(initialDelayMs * 2^k, maxDelayMs) and at most                       *)
(* min(initialDelayMs * 2^k * (1 + jitterFactor), maxDelayMs).             *)
(***************************************************************************)
Sleeping == Retrying /\ retry.pc = "sleeping"

C29_Waits ==
    /\ Retrying => retry.calls <= retry.opts.maxRetries + 1
    /\ Sleeping =>
           LET base == retry.opts.initialDelayMs * (2 ^ retry.attempt)
               cap == retry.opts.maxDelayMs
           IN /\ retry.delayMs <= cap
              /\ "retryAfterSeconds" \notin DOMAIN retry.lastError =>
                     /\ retry.delayMs >= (IF base <= cap THEN base ELSE cap)
                     /\ \/ retry.delayMs = cap
                        \/ 10 * retry.delayMs
                               <= base * (10 + retry.opts.jitterFactorTenths)

C29_Capped ==
    /\ Sleeping
    /\ retry.opts.maxDelayMs = 2000
    /\ retry.attempt = 1
    /\ "retryAfterSeconds" \notin DOMAIN retry.lastError
    /\ retry.delayMs = 2000

(***************************************************************************)
(* C30.  A POST to /mcp/message goes to a transport only when its          *)
(* sessionId is registered at that moment: without a sessionId the answer  *)
(* is 400, with an unregistered one 404.  The registry holds the sessions  *)
(* whose transport is open, never a closed one, so a message for a closed  *)
(* session is answered 404.                                                *)
(***************************************************************************)
Serving == op = "http"

C30_Registry ==
    Serving =>
        /\ http.transports \cap http.closed = {}
        /\ http.transports = http.open

\* A step that handles the pending message post.
Handles(post) ==
    /\ Serving
    /\ op' = "http"
    /\ post \in http.pending
    /\ http'.pending = http.pending \ {post}
    /\ post.route = "POST /mcp/message"

C30_Step ==
    \A post \in Posts :
        Handles(post) =>
            LET e == http'.last
                missing == post.sessionId = Undefined
                               \/ post.sessionId = String(<<>>)
                registered == ~missing /\ post.sessionId \in http.transports
            IN /\ e.route = post.route
               /\ e.handed <=> registered
               /\ missing => e.status = 400
               /\ ~missing /\ ~registered => e.status = 404
               /\ post.sessionId \in http.closed => e.status = 404
               /\ e.handed => e.sessionId \in http.open

C30_Sessions == [](C30_Registry) /\ [][C30_Step]_vars

\* A message for a session that has closed, answered 404, while the other
\* session is still registered.
C30_Witness ==
    /\ Serving
    /\ http.last # None
    /\ http.last.route = "POST /mcp/message"
    /\ http.last.sessionId \in http.closed
    /\ http.last.status = 404
    /\ http.transports # {}

====
